---- MODULE Spec2Model ----
(***************************************************************************)
(* Model of the dpdk-mpls-forwarder: the core-list parser (cmdlargs.c),    *)
(* the frame transform and the per-core forwarding loop (fwd_engine.c).    *)
(*                                                                         *)
(* The specifications share the variables below:                           *)
(*   SpecParse  - parse_core_list run on every input up to MaxLen chars    *)
(*   SpecInsert - put_in_order called again and again on one array         *)
(*   SpecCodec  - the shim header getters and setters of mpls.h            *)
(*   SpecXform  - the encapsulate / decapsulate transforms on one mbuf     *)
(*   SpecDecap  - ethertype deduction and decapsulation, every top nibble  *)
(*   SpecConf   - main's allocation and configuration of the streams       *)
(*   Spec       - fwd_worker_loop with fwd_engine_stop and the NIC         *)
(*   SpecOrder  - the same, with the received buffers numbered             *)
(*   SpecStreams - several streams side by side, queues recorded           *)
(***************************************************************************)
EXTENDS Integers, Sequences, FiniteSets, TLC

VARIABLES
    \* ---- parse_core_list (src/cmdlargs.c) ----
    input,      \* the whole argument string, a sequence of characters (never changes)
    list,       \* char const *list: index into input of the next character (1-based)
    cores,      \* unsigned int *cores: the destination array, indices 0..cores_len-1
    cores_len,  \* capacity of the destination array
    count,      \* unsigned int count (-1 stands for (unsigned)-1, put_in_order's failure)
    min,        \* int min (INT_MAX when no range is open)
    max,        \* int max
    p_pc,       \* "idle" | "loop" | "ret"
    p_ret,      \* the value parse_core_list returned (when p_pc = "ret")
    \* ---- the frame transform on one buffer (src/fwd_engine.c:44-173) ----
    x_orig,     \* the buffer as it was handed to the transform
    x_pkts,     \* struct rte_mbuf *pkts[]: the batch the burst functions work on
    x_hdr,      \* mpls_header_t header handed to mpls_add_hdr_burst
    x_pc,       \* "idle" | "new" | "ins" | "rm" | "insrm"
    x_ret,      \* what mpls_header_insert returned for the buffer
    x_failed,   \* whether the last burst function logged a failure for the buffer
    x_etype     \* what mpls_deduce_ethertype returned for the buffer

    \* ---- the forwarding engine (src/fwd_engine.c, src/start.c) ----
VARIABLES
    lets_quit,  \* static volatile unsigned lets_quit
    strm,       \* struct fwd_stream g_lcore_stream[]: the configured streams
    pc,         \* per stream: where its fwd_worker_loop stands
    pkts,       \* per stream: struct rte_mbuf *pkts[], the num_rx buffers of the batch
    num_rx,     \* per stream: uint16_t num_rx
    num_tx,     \* per stream: uint16_t num_tx
    mpls_hdr,   \* per stream: mpls_header_t mpls_hdr
    acct,       \* per stream and buffer of the batch: how often it was offered to
                \* and accepted by rte_eth_tx_burst and released by rte_pktmbuf_free,
                \* and whether its transform failed (bookkeeping, not program state)
    tx_ret,     \* per stream: what the last rte_eth_tx_burst returned (bookkeeping)
    after_stop, \* per stream: phases started since lets_quit was set (bookkeeping)
    hist        \* per stream, bookkeeping: rx_batch, the last batch as it was
                \* received; dir, the phase it belongs to; stop_at, where the worker
                \* stood when lets_quit was set; exit_at, the stop check at which it
                \* left the loop; and, in the runs that number the buffers (track):
                \* rx_cnt, the number of buffers received so far in each phase;
                \* tx_log, the receive numbers (seq) of the buffers the transmit
                \* calls accepted, in the order they were handed over

    \* ---- the shim header codec (src/mpls.h) ----
VARIABLES
    c_old,      \* the header before the setter ran
    c_hdr,      \* mpls_header_t *mheader: the header the setter works on
    c_val,      \* uint32_t value handed to the setter
    c_field,    \* which setter ran: "label" | "tc" | "eos" | "ttl" ("none" before)
    c_got,      \* what the four getters returned on the header after the setter
    c_pc        \* "idle" | "new" | "set" | "got"

    \* ---- the configuration of the streams (src/start.c) ----
VARIABLES
    g_app_config,  \* static cmdline_conf_t g_app_config: num_cores, mpls_label,
                   \* mpls_ttl, mpls_in_port
    g_ports,       \* the ids of g_ports[PORT_INGRESS] and g_ports[PORT_EGRESS]
    s_pc           \* "idle" | "main" | "alloc" | "ports" | "conf" | "exit"

svars == <<g_app_config, g_ports, s_pc>>

cvars == <<c_old, c_hdr, c_val, c_field, c_got, c_pc>>

lvars == <<lets_quit, strm, pc, pkts, num_rx, num_tx, mpls_hdr, acct, tx_ret, after_stop, hist>>

xvars == <<x_orig, x_pkts, x_hdr, x_pc, x_ret, x_failed, x_etype>>

pvars == <<input, list, cores, cores_len, count, min, max, p_pc, p_ret>>

(***************************************************************************)
(* Bounds of the model.                                                    *)
(***************************************************************************)
MaxLen == 5          \* longest core-list string explored
MaxCores == 2        \* largest destination capacity explored
MaxBatch == 2        \* most buffers one rte_eth_rx_burst call delivers
MaxStreams == 3      \* most cores (streams) configured
MaxFrames == 2       \* most buffers one receive queue delivers in a numbered run

(***************************************************************************)
(* Program constants.                                                      *)
(***************************************************************************)
INT_MAX == 2147483647

\* The characters core lists are drawn from: digits, the two separators, a blank,
\* a sign strtol accepts, and a character that belongs to no token.
Alphabet == {"0", "1", "2", ",", "-", " ", "+", "x"}

RECURSIVE StringsUpTo(_)
StringsUpTo(n) ==
    IF n = 0 THEN {<< >>}
    ELSE LET shorter == StringsUpTo(n - 1)
         IN  shorter \cup {Append(s, c) : s \in {t \in shorter : Len(t) = n - 1}, c \in Alphabet}

(***************************************************************************)
(* <ctype.h> / <stdlib.h> as parse_core_list uses them.                    *)
(***************************************************************************)
isblank(c) == c \in {" ", "\t"}
isspace(c) == c \in {" ", "\t", "\n", "\f", "\r"}
isdigit(c) == c \in {"0", "1", "2", "3", "4", "5", "6", "7", "8", "9"}

DigitVal(c) ==
    CASE c = "0" -> 0 [] c = "1" -> 1 [] c = "2" -> 2 [] c = "3" -> 3 [] c = "4" -> 4
      [] c = "5" -> 5 [] c = "6" -> 6 [] c = "7" -> 7 [] c = "8" -> 8 [] c = "9" -> 9

\* the terminating NUL character of a C string
NUL == "NUL"

\* *p for a pointer p into the NUL-terminated string s
CharAt(s, p) == IF p <= Len(s) THEN s[p] ELSE NUL

RECURSIVE SkipWhile(_, _, _)
\* first index >= p whose character is not in class cls ("blank", "space", "digit")
SkipWhile(s, p, cls) ==
    LET c == CharAt(s, p)
        in_cls == CASE cls = "blank" -> isblank(c)
                    [] cls = "space" -> isspace(c)
                    [] cls = "digit" -> isdigit(c)
    IN  IF in_cls THEN SkipWhile(s, p + 1, cls) ELSE p

RECURSIVE DigitsValue(_, _, _, _)
\* the decimal value of s[from .. to-1], accumulated left to right
DigitsValue(s, from, to, acc) ==
    IF from >= to THEN acc ELSE DigitsValue(s, from + 1, to, acc * 10 + DigitVal(s[from]))

\* strtol(list, &end, 10): skip white space, take an optional sign, take the digits.
\* Without digits nothing is converted: the value is 0 and end is the start pointer.
strtol(s, p) ==
    LET q     == SkipWhile(s, p, "space")
        sgn   == CharAt(s, q)
        d0    == IF sgn \in {"+", "-"} THEN q + 1 ELSE q
        d1    == SkipWhile(s, d0, "digit")
        mag   == DigitsValue(s, d0, d1, 0)
    IN  IF d1 = d0
        THEN [val |-> 0, end |-> p]
        ELSE [val |-> IF sgn = "-" THEN 0 - mag ELSE mag, end |-> d1]

(***************************************************************************)
(* put_in_order (src/cmdlargs.c:80-109).  The array is a function on       *)
(* 0 .. array_len-1; the result is the returned int and the array.         *)
(***************************************************************************)
RECURSIVE FindSlot_NoBreak(_, _, _, _)
\* a mutation of FindSlot: the loop lacks "if (array[x] > val) break;"
FindSlot_NoBreak(val, curr_n_elem, array, x) ==
    IF x < curr_n_elem /\ array[x] # val
    THEN FindSlot_NoBreak(val, curr_n_elem, array, x + 1)
    ELSE x

RECURSIVE FindSlot(_, _, _, _)
\* the first loop: stops at the first x with array[x] >= val, or at curr_n_elem
FindSlot(val, curr_n_elem, array, x) ==
    IF x < curr_n_elem /\ array[x] < val
    THEN FindSlot(val, curr_n_elem, array, x + 1)
    ELSE x

RECURSIVE ShiftUp_NoCarry(_, _, _, _)
\* a mutation of ShiftUp: the loop lacks "tmp = val"
ShiftUp_NoCarry(array, x, curr_n_elem, tmp) ==
    IF x < curr_n_elem
    THEN ShiftUp_NoCarry([array EXCEPT ![x] = tmp], x + 1, curr_n_elem, tmp)
    ELSE array

RECURSIVE ShiftUp(_, _, _, _)
\* the second loop: for (; x < curr_n_elem; x++) { val = array[x]; array[x] = tmp; tmp = val; }
ShiftUp(array, x, curr_n_elem, tmp) ==
    IF x < curr_n_elem
    THEN ShiftUp([array EXCEPT ![x] = tmp], x + 1, curr_n_elem, array[x])
    ELSE array

\* a mutation of put_in_order: the capacity is checked before the value is looked up
put_in_order_CapFirst(val, curr_n_elem, array, array_len) ==
    LET x == FindSlot(val, curr_n_elem, array, 0)
    IN  IF curr_n_elem + 1 > array_len
        THEN [ret |-> -1, array |-> array]
        ELSE IF x < curr_n_elem /\ array[x] = val
        THEN [ret |-> curr_n_elem, array |-> array]
        ELSE [ret   |-> curr_n_elem + 1,
              array |-> ShiftUp([array EXCEPT ![x] = val], x + 1, curr_n_elem + 1, array[x])]

put_in_order(val, curr_n_elem, array, array_len) ==
    LET x == FindSlot(val, curr_n_elem, array, 0)
    IN  IF x < curr_n_elem /\ array[x] = val
        THEN [ret |-> curr_n_elem, array |-> array]                    \* goto __done
        ELSE IF curr_n_elem + 1 > array_len
        THEN [ret |-> -1, array |-> array]
        ELSE [ret   |-> curr_n_elem + 1,
              array |-> ShiftUp([array EXCEPT ![x] = val], x + 1, curr_n_elem + 1, array[x])]

RECURSIVE InsertRange_DoWhile(_, _, _, _, _)
\* a mutation of InsertRange: the loop tests min <= max after its body, not before
InsertRange_DoWhile(lo, hi, cnt, array, array_len) ==
    LET r == put_in_order(lo, cnt, array, array_len)
    IN  IF r.ret = -1 \/ lo + 1 > hi THEN r
        ELSE InsertRange_DoWhile(lo + 1, hi, r.ret, r.array, array_len)

RECURSIVE InsertRange(_, _, _, _, _)
\* for (; min <= max; min++) { count = put_in_order(min, count, cores, cores_len);
\*                             if (count == -1) return 0; }
InsertRange(lo, hi, cnt, array, array_len) ==
    IF lo > hi THEN [ret |-> cnt, array |-> array]
    ELSE LET r == put_in_order(lo, cnt, array, array_len)
         IN  IF r.ret = -1 THEN r
             ELSE InsertRange(lo + 1, hi, r.ret, r.array, array_len)

(***************************************************************************)
(* parse_core_list (src/cmdlargs.c:120-175), one action per iteration of   *)
(* its do-while loop.                                                      *)
(***************************************************************************)
ParseReturn(v) ==
    /\ p_pc' = "ret"
    /\ p_ret' = v

\* a mutation of BadNumber: the sign of the value is not looked at
BadNumber_NoSign(val, start, end) == val = 0 /\ start = end

\* lines 144-147: if (errno || val < 0) return 0; if (val == 0 && list == end) return 0;
\* (errno stays 0: the values explored are far below LONG_MAX)
BadNumber(val, start, end) == val < 0 \/ (val = 0 /\ start = end)

\* lines 128-134: the argument check and the initialisation of the locals
ParseEnter ==
    /\ p_pc = "call"
    /\ IF cores_len = 0
       THEN ParseReturn(0) /\ UNCHANGED <<count, min, max>>
       ELSE /\ p_pc' = "loop"
            /\ count' = 0
            /\ min' = INT_MAX
            /\ max' = INT_MAX
            /\ UNCHANGED p_ret
    /\ UNCHANGED <<input, list, cores, cores_len>>
    /\ UNCHANGED <<xvars, lvars, cvars, svars>>

\* lines 135-174: one pass through the body of the do-while loop
ParseIter ==
    /\ p_pc = "loop"
    /\ LET l1  == SkipWhile(input, list, "blank")
           r   == strtol(input, l1)
           val == r.val
           end == SkipWhile(input, r.end, "blank")
           c   == CharAt(input, end)
       IN  IF CharAt(input, l1) = NUL
           THEN ParseReturn(count) /\ UNCHANGED <<list, cores, count, min, max>>   \* break
           ELSE IF BadNumber(val, l1, r.end)
           THEN ParseReturn(0) /\ UNCHANGED <<list, cores, count, min, max>>
           ELSE IF c \in {",", NUL}
           THEN LET lo  == IF min = INT_MAX THEN val ELSE min
                    ins == InsertRange(lo, val, count, cores, cores_len)
                IN  /\ max' = val
                    /\ cores' = ins.array
                    /\ count' = ins.ret
                    /\ IF ins.ret = -1
                       THEN /\ ParseReturn(0)
                            /\ UNCHANGED list
                            /\ min' = IF min = INT_MAX THEN val ELSE min
                       ELSE /\ min' = INT_MAX
                            /\ list' = end + 1
                            /\ IF c = NUL
                               THEN ParseReturn(ins.ret)
                               ELSE UNCHANGED <<p_pc, p_ret>>
           ELSE IF c = "-" /\ min = INT_MAX
           THEN /\ min' = val
                /\ list' = end + 1
                /\ UNCHANGED <<cores, count, max, p_pc, p_ret>>
           ELSE ParseReturn(0) /\ UNCHANGED <<list, cores, count, min, max>>
    /\ UNCHANGED <<input, cores_len>>
    /\ UNCHANGED <<xvars, lvars, cvars, svars>>

\* longer lists with a reversed range between two valid tokens
ReversedBetween ==
    { <<a, ",", "2", "-", b, ",", c>> : a \in {"0", "1", "2"}, b \in {"0", "1"},
                                        c \in {"0", "1", "2"} }

ParseInit ==
    /\ input \in StringsUpTo(MaxLen) \cup ReversedBetween
    /\ cores_len \in 0 .. MaxCores
    /\ list = 1
    /\ cores = [i \in 0 .. cores_len - 1 |-> 0]
    /\ count = 0
    /\ min = 0
    /\ max = 0
    /\ p_pc = "call"
    /\ p_ret = 0

ParseNext == ParseEnter \/ ParseIter

(***************************************************************************)
(* put_in_order on its own: the call of line 157 repeated with any value,  *)
(* on an array that starts empty, until a call returns -1.                 *)
(***************************************************************************)
\* the values handed to put_in_order and the capacities of the array
InsertValues == 0 .. MaxCores + 2
InsertCapacities == 1 .. MaxCores + 1

InsertInit ==
    /\ input = << >>
    /\ cores_len \in InsertCapacities
    /\ list = 1
    /\ cores = [i \in 0 .. cores_len - 1 |-> 0]
    /\ count = 0
    /\ min = 0
    /\ max = 0
    /\ p_pc = "put"
    /\ p_ret = 0

\* count = put_in_order(min, count, cores, cores_len); if (count == -1) return 0;
PutInOrder ==
    /\ p_pc = "put"
    /\ \E val \in InsertValues :
          /\ min' = val
          /\ \E r \in {put_in_order(val, count, cores, cores_len)} :
                /\ cores' = r.array
                /\ count' = r.ret
                /\ IF r.ret = -1 THEN ParseReturn(0) ELSE UNCHANGED <<p_pc, p_ret>>
    /\ UNCHANGED <<input, list, cores_len, max>>
    /\ UNCHANGED <<xvars, lvars, cvars, svars>>

InsertNext == PutInOrder

(***************************************************************************)
(* 32-bit unsigned values (uint32_t, mpls_header_t) as bit vectors: bit 0   *)
(* is the least significant one.                                           *)
(***************************************************************************)
Pow2(n) == 2 ^ n

Bit == {0, 1}
\* the uint32_t with the value n, for 0 <= n < 2^31
U32(n) == [i \in 0 .. 31 |-> IF i = 31 THEN 0 ELSE (n \div Pow2(i)) % 2]
Shl(a, k) == [i \in 0 .. 31 |-> IF i >= k THEN a[i - k] ELSE 0]          \* a << k
Shr(a, k) == [i \in 0 .. 31 |-> IF i + k <= 31 THEN a[i + k] ELSE 0]     \* a >> k
And(a, b) == [i \in 0 .. 31 |-> a[i] * b[i]]                             \* a & b
Or(a, b)  == [i \in 0 .. 31 |-> IF a[i] + b[i] > 0 THEN 1 ELSE 0]        \* a | b
Not(a)    == [i \in 0 .. 31 |-> 1 - a[i]]                                \* ~a

\* a mutation of ByteBE: the header is stored in little-endian order
ByteLE(a, k) ==
    LET b(i) == a[8 * k + i]
    IN  b(0) + 2 * b(1) + 4 * b(2) + 8 * b(3) + 16 * b(4) + 32 * b(5) + 64 * b(6) + 128 * b(7)

\* byte k (0 = most significant) of a, as a number 0..255: the k-th byte in
\* memory of rte_cpu_to_be_32(a)
ByteBE(a, k) ==
    LET b(i) == a[8 * (3 - k) + i]
    IN  b(0) + 2 * b(1) + 4 * b(2) + 8 * b(3) + 16 * b(4) + 32 * b(5) + 64 * b(6) + 128 * b(7)

(***************************************************************************)
(* mpls.h: the shim header codec.                                          *)
(***************************************************************************)
MPLS_HDR_LEN == 4
MPLS_HDR_LABEL_SHIFT == 12
MPLS_HDR_LABEL_MASK  == U32(1048575)                       \* 0x000fffff
MPLS_HDR_LABEL_BITS  == Shl(MPLS_HDR_LABEL_MASK, MPLS_HDR_LABEL_SHIFT)
MPLS_HDR_TC_SHIFT    == 9
MPLS_HDR_TC_MASK     == U32(7)
MPLS_HDR_TC_BITS     == Shl(MPLS_HDR_TC_MASK, MPLS_HDR_TC_SHIFT)
MPLS_HDR_EOS_SHIFT   == 8
MPLS_HDR_EOS_MASK    == U32(1)
MPLS_HDR_EOS_BIT     == Shl(MPLS_HDR_EOS_MASK, MPLS_HDR_EOS_SHIFT)
MPLS_HDR_TTL_SHIFT   == 0
MPLS_HDR_TTL_MASK    == U32(255)
MPLS_HDR_TTL_BITS    == Shl(MPLS_HDR_TTL_MASK, MPLS_HDR_TTL_SHIFT)

mpls_get_label(mheader) == Shr(mheader, MPLS_HDR_LABEL_SHIFT)
mpls_get_tc(mheader)    == And(Shr(mheader, MPLS_HDR_TC_SHIFT), MPLS_HDR_TC_MASK)
mpls_get_eos(mheader)   == And(Shr(mheader, MPLS_HDR_EOS_SHIFT), MPLS_HDR_EOS_MASK)
mpls_get_ttl(mheader)   == And(Shr(mheader, MPLS_HDR_TTL_SHIFT), MPLS_HDR_TTL_MASK)

\* a mutation of mpls_set_ttl: the old TTL bits are not cleared
mpls_set_ttl_NoClear(mheader, ttl) ==
    Or(mheader, Shl(And(ttl, MPLS_HDR_TTL_MASK), MPLS_HDR_TTL_SHIFT))

\* a mutation of mpls_set_tc: the value is not masked to the field width
mpls_set_tc_NoMask(mheader, tc) ==
    Or(And(mheader, Not(MPLS_HDR_TC_BITS)), Shl(tc, MPLS_HDR_TC_SHIFT))

\* a mutation of mpls_set_eos: the bit is always cleared
mpls_set_eos_Clear(mheader, eos) == And(mheader, Not(MPLS_HDR_EOS_BIT))

mpls_set_label(mheader, value) ==
    Or(And(mheader, Not(MPLS_HDR_LABEL_BITS)),
       Shl(And(value, MPLS_HDR_LABEL_MASK), MPLS_HDR_LABEL_SHIFT))
mpls_set_tc(mheader, tc) ==
    Or(And(mheader, Not(MPLS_HDR_TC_BITS)),
       Shl(And(tc, MPLS_HDR_TC_MASK), MPLS_HDR_TC_SHIFT))
mpls_set_eos(mheader, eos) ==
    Or(And(mheader, Not(MPLS_HDR_EOS_BIT)),
       Shl(And(eos, MPLS_HDR_EOS_MASK), MPLS_HDR_EOS_SHIFT))
mpls_set_ttl(mheader, ttl) ==
    Or(And(mheader, Not(MPLS_HDR_TTL_BITS)),
       Shl(And(ttl, MPLS_HDR_TTL_MASK), MPLS_HDR_TTL_SHIFT))

(***************************************************************************)
(* The codec applied to one header: one setter, then the four getters.     *)
(***************************************************************************)
\* headers: every field all zeros, all ones, or alternating bits
CHeaders ==
    LET pat(k, i) == IF k = 2 THEN i % 2 ELSE k
    IN  { [i \in 0 .. 31 |-> IF i >= 12 THEN pat(l, i)
                             ELSE IF i >= 9 THEN pat(t, i)
                             ELSE IF i = 8 THEN pat(e, i)
                             ELSE pat(y, i)] :
            l \in 0 .. 2, t \in 0 .. 2, e \in 0 .. 2, y \in 0 .. 2 }

\* values: the smallest and largest of each field, the first value too wide for
\* each field, and values with bits in every field
CValues ==
    { U32(0), U32(1), U32(2), U32(5), U32(7), U32(8), U32(255), U32(256), U32(682),
      U32(1048575), U32(1048576), U32(699050), Not(U32(0)), Not(U32(1048575)) }

\* the four getters (mpls.h:53-74) on one header
Fields(h) ==
    [label |-> mpls_get_label(h), tc |-> mpls_get_tc(h),
     eos   |-> mpls_get_eos(h),   ttl |-> mpls_get_ttl(h)]

CodecInit ==
    /\ c_old \in CHeaders
    /\ c_hdr = c_old
    /\ c_val \in CValues
    /\ c_field = "none"
    /\ c_got = Fields(c_old)
    /\ c_pc = "new"

CodecIdle ==
    /\ c_old = 0 /\ c_hdr = 0 /\ c_val = 0
    /\ c_field = "none" /\ c_got = 0 /\ c_pc = "idle"

\* one setter call on the header
CodecSet(field, result) ==
    /\ c_pc = "new"
    /\ c_hdr' = result
    /\ c_field' = field
    /\ c_pc' = "set"
    /\ UNCHANGED <<c_old, c_val, c_got>>
    /\ UNCHANGED <<pvars, xvars, lvars, svars>>

SetLabel == CodecSet("label", mpls_set_label(c_hdr, c_val))

SetTc == CodecSet("tc", mpls_set_tc(c_hdr, c_val))

SetEos == CodecSet("eos", mpls_set_eos(c_hdr, c_val))

SetTtl == CodecSet("ttl", mpls_set_ttl(c_hdr, c_val))

\* the four getters on the header the setter left
CodecGet ==
    /\ c_pc = "set"
    /\ c_got' = Fields(c_hdr)
    /\ c_pc' = "got"
    /\ UNCHANGED <<c_old, c_hdr, c_val, c_field>>
    /\ UNCHANGED <<pvars, xvars, lvars, svars>>

CodecNext == SetLabel \/ SetTc \/ SetEos \/ SetTtl \/ CodecGet

(***************************************************************************)
(* The packet buffer (struct rte_mbuf) as the transforms see it:           *)
(*   refcnt, direct  - rte_mbuf_refcnt_read, RTE_MBUF_DIRECT               *)
(*   headroom        - rte_pktmbuf_headroom: free bytes before the data    *)
(*   data            - the data_len bytes of the first segment (1-based)   *)
(*   pkt_len         - data_len plus the bytes of the further segments     *)
(***************************************************************************)
RTE_ETHER_HDR_LEN == 14
RTE_ETHER_MIN_LEN == 64
RTE_ETHER_TYPE_IPV4 == 2048      \* 0x0800
RTE_ETHER_TYPE_IPV6 == 34525     \* 0x86DD
RTE_ETHER_TYPE_MPLS == 34887     \* 0x8847
EINVAL == 22
ENOSPC == 28

data_len(m) == Len(m.data)

\* eth->ether_type, the two bytes at offset 12 read as a big-endian number
EtherType(m) == m.data[13] * 256 + m.data[14]

\* rte_pktmbuf_prepend: NULL (ok = FALSE) when the headroom is too small; else
\* the data grows by len bytes at the front.  The new bytes hold whatever the
\* headroom held; fill stands for it.
rte_pktmbuf_prepend(m, len, fill) ==
    IF len > m.headroom
    THEN [ok |-> FALSE, m |-> m]
    ELSE [ok |-> TRUE,
          m  |-> [m EXCEPT !.headroom = @ - len,
                           !.data     = [i \in 1 .. len |-> fill] \o @,
                           !.pkt_len  = @ + len]]

\* rte_pktmbuf_adj: NULL (ok = FALSE) when the segment is shorter than len; else
\* the first len bytes leave the data and join the headroom
rte_pktmbuf_adj(m, len) ==
    IF len > data_len(m)
    THEN [ok |-> FALSE, m |-> m]
    ELSE [ok |-> TRUE,
          m  |-> [m EXCEPT !.headroom = @ + len,
                           !.data     = SubSeq(@, len + 1, Len(@)),
                           !.pkt_len  = @ - len]]

\* the data with the two bytes of eth->ether_type set to rte_cpu_to_be_16(etype)
SetEtherType(d, etype) ==
    [i \in 1 .. Len(d) |-> IF i = 13 THEN etype \div 256
                           ELSE IF i = 14 THEN etype % 256
                           ELSE d[i]]

(***************************************************************************)
(* fwd_engine.c: the frame transform.                                      *)
(***************************************************************************)
IPVERSION_MASK == 240     \* 0xf0
IP4_VERSION    == 64      \* 0x40
IP6_VERSION    == 96      \* 0x60

\* the mutation of mpls_header_strip that does not look at the ethertype
mpls_header_strip_NoTypeCheck(pktmb, ethertype) ==
    LET adj == rte_pktmbuf_adj(pktmb, MPLS_HDR_LEN)
        old == pktmb.data
        mv  == [i \in 1 .. Len(adj.m.data) |->
                   IF i <= RTE_ETHER_HDR_LEN THEN old[i] ELSE adj.m.data[i]]
    IN  IF ~adj.ok THEN [ret |-> 0 - ENOSPC, m |-> pktmb]
        ELSE [ret |-> 0, m |-> [adj.m EXCEPT !.data = SetEtherType(mv, ethertype)]]

\* a mutation of mpls_header_strip: the link-layer header is not moved forward
mpls_header_strip_NoMove(pktmb, ethertype) ==
    LET adj == rte_pktmbuf_adj(pktmb, MPLS_HDR_LEN)
    IN  IF EtherType(pktmb) # RTE_ETHER_TYPE_MPLS THEN [ret |-> 0, m |-> pktmb]
        ELSE IF ~adj.ok THEN [ret |-> 0 - ENOSPC, m |-> pktmb]
        ELSE [ret |-> 0, m |-> [adj.m EXCEPT !.data = SetEtherType(@, ethertype)]]

\* mpls_header_strip (lines 44-61)
mpls_header_strip(pktmb, ethertype) ==
    LET adj == rte_pktmbuf_adj(pktmb, MPLS_HDR_LEN)
        old == pktmb.data
        \* memmove(eth, (uint8_t *)eth - sizeof(mpls_header_t), RTE_ETHER_HDR_LEN)
        mv  == [i \in 1 .. Len(adj.m.data) |->
                   IF i <= RTE_ETHER_HDR_LEN THEN old[i] ELSE adj.m.data[i]]
    IN  IF EtherType(pktmb) # RTE_ETHER_TYPE_MPLS THEN [ret |-> 0, m |-> pktmb]
        ELSE IF ~adj.ok THEN [ret |-> 0 - ENOSPC, m |-> pktmb]
        ELSE [ret |-> 0, m |-> [adj.m EXCEPT !.data = SetEtherType(mv, ethertype)]]

\* the mutation of mpls_deduce_ethertype that never skips the shim
mpls_deduce_ethertype_NoSkip(pmb) ==
    LET b == pmb.data[RTE_ETHER_HDR_LEN + 1]
        v == (b \div 16) * 16
    IN  IF v = IP4_VERSION THEN RTE_ETHER_TYPE_IPV4
        ELSE IF v = IP6_VERSION THEN RTE_ETHER_TYPE_IPV6
        ELSE 0

\* a mutation of mpls_deduce_ethertype: the byte is compared without the mask
mpls_deduce_ethertype_NoMask(pmb) ==
    LET p == IF EtherType(pmb) = RTE_ETHER_TYPE_MPLS
             THEN RTE_ETHER_HDR_LEN + MPLS_HDR_LEN
             ELSE RTE_ETHER_HDR_LEN
        b == pmb.data[p + 1]
    IN  IF b = IP4_VERSION THEN RTE_ETHER_TYPE_IPV4
        ELSE IF b = IP6_VERSION THEN RTE_ETHER_TYPE_IPV6
        ELSE 0

\* mpls_deduce_ethertype (lines 69-88); *p & IPVERSION_MASK keeps the top nibble
mpls_deduce_ethertype(pmb) ==
    LET p == IF EtherType(pmb) = RTE_ETHER_TYPE_MPLS
             THEN RTE_ETHER_HDR_LEN + MPLS_HDR_LEN
             ELSE RTE_ETHER_HDR_LEN
        b == pmb.data[p + 1]
        v == (b \div 16) * 16
    IN  IF v = IP4_VERSION THEN RTE_ETHER_TYPE_IPV4
        ELSE IF v = IP6_VERSION THEN RTE_ETHER_TYPE_IPV6
        ELSE 0

\* a mutation of the loop body of mpls_remove_hdr_burst: no continue for an
\* unknown packet type
RemoveOne_NoSkip(m) ==
    LET etype == mpls_deduce_ethertype(m)
        r     == mpls_header_strip(m, etype)
    IN  [m |-> r.m, failed |-> r.ret < 0]

\* the body of the loop of mpls_remove_hdr_burst (lines 101-109) for one buffer:
\* the buffer afterwards and whether a failure was logged
RemoveOne(m) ==
    LET etype == mpls_deduce_ethertype(m)
        r     == mpls_header_strip(m, etype)
    IN  IF etype = 0 THEN [m |-> m, failed |-> FALSE]
        ELSE [m |-> r.m, failed |-> r.ret < 0]

\* mpls_remove_hdr_burst (lines 93-111)
mpls_remove_hdr_burst(burst, n_pkts) ==
    [n \in 1 .. n_pkts |-> RemoveOne(burst[n])]

\* the mutation of mpls_header_insert that checks the length before the ownership
mpls_header_insert_LenFirst(pktmb, hdr) ==
    LET pre == rte_pktmbuf_prepend(pktmb, MPLS_HDR_LEN, 0)
        mv  == [i \in 1 .. Len(pre.m.data) |->
                   IF i <= RTE_ETHER_HDR_LEN THEN pre.m.data[i + MPLS_HDR_LEN]
                   ELSE IF i <= RTE_ETHER_HDR_LEN + MPLS_HDR_LEN
                        THEN ByteBE(hdr, i - RTE_ETHER_HDR_LEN - 1)
                   ELSE pre.m.data[i]]
    IN  IF data_len(pktmb) < RTE_ETHER_MIN_LEN THEN [ret |-> 0 - ENOSPC, m |-> pktmb]
        ELSE IF ~pktmb.direct \/ pktmb.refcnt > 1 THEN [ret |-> 0 - EINVAL, m |-> pktmb]
        ELSE IF ~pre.ok THEN [ret |-> 0 - ENOSPC, m |-> pktmb]
        ELSE [ret |-> 0, m |-> [pre.m EXCEPT !.data = SetEtherType(mv, RTE_ETHER_TYPE_MPLS)]]

\* a mutation of mpls_header_insert: a frame of exactly RTE_ETHER_MIN_LEN bytes
\* is taken for too short
mpls_header_insert_MinLenInclusive(pktmb, hdr) ==
    LET pre == rte_pktmbuf_prepend(pktmb, MPLS_HDR_LEN, 0)
        mv  == [i \in 1 .. Len(pre.m.data) |->
                   IF i <= RTE_ETHER_HDR_LEN THEN pre.m.data[i + MPLS_HDR_LEN]
                   ELSE IF i <= RTE_ETHER_HDR_LEN + MPLS_HDR_LEN
                        THEN ByteBE(hdr, i - RTE_ETHER_HDR_LEN - 1)
                   ELSE pre.m.data[i]]
    IN  IF ~pktmb.direct \/ pktmb.refcnt > 1 THEN [ret |-> 0 - EINVAL, m |-> pktmb]
        ELSE IF data_len(pktmb) <= RTE_ETHER_MIN_LEN THEN [ret |-> 0 - ENOSPC, m |-> pktmb]
        ELSE IF ~pre.ok THEN [ret |-> 0 - ENOSPC, m |-> pktmb]
        ELSE [ret |-> 0, m |-> [pre.m EXCEPT !.data = SetEtherType(mv, RTE_ETHER_TYPE_MPLS)]]

\* mpls_header_insert (lines 124-154)
mpls_header_insert(pktmb, hdr) ==
    LET pre == rte_pktmbuf_prepend(pktmb, MPLS_HDR_LEN, 0)
        \* memmove(new, (uint8_t *)new + sizeof(mpls_header_t), RTE_ETHER_HDR_LEN);
        \* *mpls = rte_cpu_to_be_32(mpls_hdr), right after the moved header
        mv  == [i \in 1 .. Len(pre.m.data) |->
                   IF i <= RTE_ETHER_HDR_LEN THEN pre.m.data[i + MPLS_HDR_LEN]
                   ELSE IF i <= RTE_ETHER_HDR_LEN + MPLS_HDR_LEN
                        THEN ByteBE(hdr, i - RTE_ETHER_HDR_LEN - 1)
                   ELSE pre.m.data[i]]
    IN  IF ~pktmb.direct \/ pktmb.refcnt > 1 THEN [ret |-> 0 - EINVAL, m |-> pktmb]
        ELSE IF data_len(pktmb) < RTE_ETHER_MIN_LEN THEN [ret |-> 0 - ENOSPC, m |-> pktmb]
        ELSE IF ~pre.ok THEN [ret |-> 0 - ENOSPC, m |-> pktmb]
        ELSE [ret |-> 0, m |-> [pre.m EXCEPT !.data = SetEtherType(mv, RTE_ETHER_TYPE_MPLS)]]

\* the body of the loop of mpls_add_hdr_burst (lines 167-171) for one buffer
AddOne(m, header) ==
    LET r == mpls_header_insert(m, header)
    IN  [m |-> r.m, failed |-> r.ret < 0, ret |-> r.ret]

\* a mutation of mpls_add_hdr_burst: the buffers end up in the array back to front
mpls_add_hdr_burst_Reordered(burst, n_pkts, header) ==
    [n \in 1 .. n_pkts |-> AddOne(burst[n_pkts + 1 - n], header)]

\* a mutation of mpls_add_hdr_burst: the loop ends at the first failure
mpls_add_hdr_burst_StopAtFailure(burst, n_pkts, header) ==
    LET ok(n) == \A k \in 1 .. n - 1 : ~AddOne(burst[k], header).failed
    IN  [n \in {k \in 1 .. n_pkts : ok(k)} |-> AddOne(burst[n], header)]

\* mpls_add_hdr_burst (lines 159-173)
mpls_add_hdr_burst(burst, n_pkts, header) ==
    [n \in 1 .. n_pkts |-> AddOne(burst[n], header)]


(***************************************************************************)
(* The transforms applied to one received frame: an encapsulation, a       *)
(* decapsulation, or an encapsulation followed by a decapsulation.         *)
(***************************************************************************)
\* an Ethernet frame of len bytes: addresses, ethertype, then a payload whose
\* bytes differ from place to place; b15 and b19 are the bytes at offsets 14, 18
MkFrame(len, etype, b15, b19) ==
    [i \in 1 .. len |->
        IF i <= 6 THEN 16 + i
        ELSE IF i <= 12 THEN 32 + i
        ELSE IF i = 13 THEN etype \div 256
        ELSE IF i = 14 THEN etype % 256
        ELSE IF i = 15 THEN b15
        ELSE IF i = 19 THEN b19
        ELSE (7 * i) % 256]

\* an ethertype that is neither IP nor MPLS (ARP, 0x0806)
ETHER_TYPE_ARP == 8 * 256 + 6

\* the buffers the transforms are tried on
XBuffers ==
    { [refcnt   |-> own[1],
       direct   |-> own[2],
       headroom |-> room,
       data     |-> MkFrame(len, etype, b15, b19),
       pkt_len  |-> len + more] :
        own   \in {<<1, TRUE>>, <<2, TRUE>>, <<1, FALSE>>},
        room  \in {0, 3, 4, 128},
        len   \in {60, 63, 64, 65},
        more  \in {0, 100},
        etype \in {RTE_ETHER_TYPE_IPV4, RTE_ETHER_TYPE_IPV6, RTE_ETHER_TYPE_MPLS,
                   ETHER_TYPE_ARP},
        b15   \in {69, 110, 0, 244},       \* 0x45, 0x6e, 0x00, 0xf4
        b19   \in {69, 96, 33} }           \* 0x45, 0x60, 0x21

\* the header values: zero, label 16 / EoS / TTL 64, all ones
XHeaders == {U32(0), U32(65856), Not(U32(0))}

XformInit ==
    /\ x_orig \in XBuffers
    /\ x_pkts = <<x_orig>>
    /\ x_hdr \in XHeaders
    /\ x_pc = "new"
    /\ x_ret = 0
    /\ x_failed = FALSE
    /\ x_etype = 0

\* mpls_add_hdr_burst(pkts, 1, header)
XInsert ==
    /\ x_pc = "new"
    /\ LET r == mpls_add_hdr_burst(x_pkts, Len(x_pkts), x_hdr)
       IN  /\ x_pkts' = [n \in 1 .. Len(x_pkts) |-> r[n].m]
           /\ x_ret' = r[1].ret
           /\ x_failed' = r[1].failed
    /\ x_pc' = "ins"
    /\ UNCHANGED <<x_orig, x_hdr, x_etype>>
    /\ UNCHANGED <<pvars, lvars, cvars, svars>>

\* mpls_remove_hdr_burst(pkts, 1), on the frame as received or as encapsulated
XRemove ==
    /\ x_pc \in {"new", "ins"}
    /\ LET r == mpls_remove_hdr_burst(x_pkts, Len(x_pkts))
       IN  /\ x_pkts' = [n \in 1 .. Len(x_pkts) |-> r[n].m]
           /\ x_failed' = r[1].failed
    /\ x_pc' = IF x_pc = "new" THEN "rm" ELSE "insrm"
    /\ UNCHANGED <<x_orig, x_hdr, x_ret, x_etype>>
    /\ UNCHANGED <<pvars, lvars, cvars, svars>>

XformNext == XInsert \/ XRemove

(***************************************************************************)
(* The ethertype deduction and the decapsulation applied to one received   *)
(* frame, for every top nibble of the bytes at offsets 14 and 18.          *)
(***************************************************************************)
\* bytes with every top nibble, each with a low nibble of 0, 5 and 15
NibbleBytes == { hi * 16 + lo : hi \in 0 .. 15, lo \in {0, 5, 15} }

DecapBuffers ==
    { [refcnt   |-> 1,
       direct   |-> TRUE,
       headroom |-> 128,
       data     |-> MkFrame(len, etype, b15, b19),
       pkt_len  |-> len] :
        len   \in {60, 64},
        etype \in {RTE_ETHER_TYPE_IPV4, RTE_ETHER_TYPE_IPV6, RTE_ETHER_TYPE_MPLS,
                   ETHER_TYPE_ARP},
        b15   \in NibbleBytes,
        b19   \in NibbleBytes }

DecapInit ==
    /\ x_orig \in DecapBuffers
    /\ x_pkts = <<x_orig>>
    /\ x_hdr = U32(0)
    /\ x_pc = "new"
    /\ x_ret = 0
    /\ x_failed = FALSE
    /\ x_etype = 0

\* etype = mpls_deduce_ethertype(pkts[n]): the function only reads the buffer
XDeduce ==
    /\ x_pc = "new"
    /\ x_etype' = mpls_deduce_ethertype(x_pkts[1])
    /\ x_pc' = "ded"
    /\ UNCHANGED <<x_orig, x_pkts, x_hdr, x_ret, x_failed>>
    /\ UNCHANGED <<pvars, lvars, cvars, svars>>

DecapNext == XDeduce \/ XRemove

(***************************************************************************)
(* start.c: the streams, one per core, each with its own queue index.      *)
(***************************************************************************)
QUEUE_INITIAL_IDX == 0
PORT_INGRESS == 0
PORT_EGRESS == 1
MPLS_DEFAULT_LABEL == 16
MPLS_DEFAULT_TTL == 64

\* the indices a stream can have in the configurations explored
StreamIds == 0 .. MaxStreams - 1

\* the configured streams, each launched on its own core: indices into g_lcore_stream
Streams == DOMAIN strm

\* a mutation of fwd_stream_conf: q_id is not advanced
fwd_stream_conf_SameQueue(port_in, port_out, n_stream, label, ttl) ==
    [s \in 0 .. n_stream - 1 |->
        [input_port  |-> [id |-> port_in, rx_queue_id |-> QUEUE_INITIAL_IDX,
                          tx_queue_id |-> QUEUE_INITIAL_IDX],
         output_port |-> [id |-> port_out, rx_queue_id |-> QUEUE_INITIAL_IDX,
                          tx_queue_id |-> QUEUE_INITIAL_IDX],
         mpls_label  |-> label,
         mpls_ttl    |-> ttl]]

\* fwd_stream_conf (start.c:335-365): stream s gets queue QUEUE_INITIAL_IDX + s on
\* both ports and the configured label and TTL
fwd_stream_conf(port_in, port_out, n_stream, label, ttl) ==
    [s \in 0 .. n_stream - 1 |->
        [input_port  |-> [id |-> port_in, rx_queue_id |-> QUEUE_INITIAL_IDX + s,
                          tx_queue_id |-> QUEUE_INITIAL_IDX + s],
         output_port |-> [id |-> port_out, rx_queue_id |-> QUEUE_INITIAL_IDX + s,
                          tx_queue_id |-> QUEUE_INITIAL_IDX + s],
         mpls_label  |-> label,
         mpls_ttl    |-> ttl]]

PORTID_MAX == 65535      \* (portid_t)(~((portid_t)0))
QUEUEID_MAX == 65535     \* (queueid_t)(~((queueid_t)0))

\* the two ports DPDK reports (main requires exactly NUM_SUPPORTED_PORTS)
DevPorts == {0, 1}

\* the label and TTL values do_args_parse lets through: the defaults, the
\* smallest and the largest of each field
ConfLabels == {0, MPLS_DEFAULT_LABEL, 1048575}

ConfTtls == {0, 1, MPLS_DEFAULT_TTL, 255}

\* fwd_stream_alloc (start.c:309-329): n_cores zeroed records with the port ids
\* and receive queues marked unset
fwd_stream_alloc(n_cores) ==
    [s \in 0 .. n_cores - 1 |->
        [input_port  |-> [id |-> PORTID_MAX, rx_queue_id |-> QUEUEID_MAX,
                          tx_queue_id |-> 0],
         output_port |-> [id |-> PORTID_MAX, rx_queue_id |-> QUEUEID_MAX,
                          tx_queue_id |-> 0],
         mpls_label  |-> 0,
         mpls_ttl    |-> 0]]

\* main after do_args_parse and the check of the cores (start.c:411-445): at
\* least one core, label and TTL within their fields, the ingress port given on
\* the command line or left unset
ConfInit ==
    /\ g_app_config \in [num_cores    : 1 .. MaxStreams,
                         mpls_label   : ConfLabels,
                         mpls_ttl     : ConfTtls,
                         mpls_in_port : DevPorts \cup {PORTID_MAX}]
    /\ g_ports = [in |-> PORTID_MAX, out |-> PORTID_MAX]
    /\ s_pc = "main"

ConfIdle ==
    /\ g_app_config = << >> /\ g_ports = << >> /\ s_pc = "idle"

\* start.c:456-458: g_lcore_stream = fwd_stream_alloc(num_cores); calloc may fail
StreamAlloc ==
    /\ s_pc = "main"
    /\ \/ strm' = fwd_stream_alloc(g_app_config.num_cores) /\ s_pc' = "alloc"
       \/ s_pc' = "exit" /\ UNCHANGED strm
    /\ UNCHANGED <<g_app_config, g_ports>>
    /\ UNCHANGED <<lets_quit, pc, pkts, num_rx, num_tx, mpls_hdr, acct, tx_ret, after_stop, hist>>
    /\ UNCHANGED <<pvars, xvars, cvars>>

\* start.c:465-497: the ingress port is the one named on the command line, else
\* the first port; the egress port is the other one; port_params_init,
\* init_mem_pool or port_queue_allocate may fail
PortsInit ==
    /\ s_pc = "alloc"
    /\ \/ /\ LET first == IF g_app_config.mpls_in_port # PORTID_MAX
                          THEN g_app_config.mpls_in_port
                          ELSE CHOOSE p \in DevPorts : \A q \in DevPorts : p <= q
              IN  g_ports' = [in  |-> first,
                              out |-> CHOOSE p \in DevPorts : p # first]
          /\ s_pc' = "ports"
       \/ s_pc' = "exit" /\ UNCHANGED g_ports
    /\ UNCHANGED <<g_app_config>>
    /\ UNCHANGED lvars
    /\ UNCHANGED <<pvars, xvars, cvars>>

\* start.c:499-501: fwd_stream_conf(&g_ports[PORT_INGRESS], &g_ports[PORT_EGRESS],
\* g_lcore_stream, num_cores)
StreamConf ==
    /\ s_pc = "ports"
    /\ strm' = fwd_stream_conf(g_ports.in, g_ports.out, g_app_config.num_cores,
                               g_app_config.mpls_label, g_app_config.mpls_ttl)
    /\ s_pc' = "conf"
    /\ UNCHANGED <<g_app_config, g_ports>>
    /\ UNCHANGED <<lets_quit, pc, pkts, num_rx, num_tx, mpls_hdr, acct, tx_ret, after_stop, hist>>
    /\ UNCHANGED <<pvars, xvars, cvars>>

ConfNext == StreamAlloc \/ PortsInit \/ StreamConf

(***************************************************************************)
(* fwd_engine.c: fwd_engine_stop and fwd_worker_loop.                      *)
(***************************************************************************)
QUIT_TRUE == 1
QUIT_FALSE == 0
MAX_PKT_BURST == 32


\* (seq is the buffer's place in the order of arrival on its queue, filled in by
\* the runs that number the buffers; rxq is the port and queue it arrived on,
\* filled in by the runs that record the queues)
\* frames the NIC delivers on the ingress port: a full-size IPv4 frame, the same
\* in a buffer with a second reference, and a 60-byte IPv6 frame (the minimum
\* frame once the NIC has stripped the CRC)
IngressFrames ==
    { [seq |-> 0, rxq |-> << >>, refcnt |-> 1, direct |-> TRUE, headroom |-> 128, pkt_len |-> 64,
       data |-> MkFrame(64, RTE_ETHER_TYPE_IPV4, 69, 33)],
      [seq |-> 0, rxq |-> << >>, refcnt |-> 2, direct |-> TRUE, headroom |-> 128, pkt_len |-> 64,
       data |-> MkFrame(64, RTE_ETHER_TYPE_IPV4, 69, 33)],
      [seq |-> 0, rxq |-> << >>, refcnt |-> 1, direct |-> TRUE, headroom |-> 128, pkt_len |-> 60,
       data |-> MkFrame(60, RTE_ETHER_TYPE_IPV6, 96, 33)] }

\* frames the NIC delivers on the egress port: an MPLS frame carrying IPv4, an
\* MPLS frame whose payload is not IP, and an ARP frame
EgressFrames ==
    { [seq |-> 0, rxq |-> << >>, refcnt |-> 1, direct |-> TRUE, headroom |-> 128, pkt_len |-> 68,
       data |-> MkFrame(68, RTE_ETHER_TYPE_MPLS, 0, 69)],
      [seq |-> 0, rxq |-> << >>, refcnt |-> 1, direct |-> TRUE, headroom |-> 128, pkt_len |-> 68,
       data |-> MkFrame(68, RTE_ETHER_TYPE_MPLS, 0, 33)],
      [seq |-> 0, rxq |-> << >>, refcnt |-> 1, direct |-> TRUE, headroom |-> 128, pkt_len |-> 60,
       data |-> MkFrame(60, ETHER_TYPE_ARP, 0, 1)] }

Min(a, b) == IF a < b THEN a ELSE b

\* what rte_eth_rx_burst(port, queue, pkts, MAX_PKT_BURST) may deliver
RxBatches(frames) ==
    UNION {[1 .. n -> frames] : n \in 0 .. Min(MaxBatch, MAX_PKT_BURST)}

\* the bookkeeping of a buffer just received
Fresh == [offered |-> 0, accepted |-> 0, released |-> 0, failed |-> FALSE, visited |-> 0]

\* rte_eth_rx_burst stores the buffers in pkts[] in the order they arrived on the
\* queue: the i-th buffer of the batch is the (base + i)-th buffer of its queue
Numbered(batch, base) ==
    [i \in 1 .. Len(batch) |-> [batch[i] EXCEPT !.seq = base + i]]

\* rte_eth_tx_burst takes the first k buffers of pkts[], in array order
TxAccepted(burst, k) == [i \in 1 .. k |-> burst[i].seq]

\* the bookkeeping of a worker that has not received anything
NoHist(track) ==
    [track    |-> track,
     rx_batch |-> << >>, dir |-> "none",
     rx_cnt   |-> [encap |-> 0, decap |-> 0],
     tx_log   |-> [encap |-> << >>, decap |-> << >>],
     stop_at  |-> "none", exit_at |-> "none",
     tagged   |-> FALSE, last_call |-> <<"none">>]

\* the IPv4 traffic of a queue, bare or under a shim, in buffers of its own: what
\* a queue delivers in the runs that record the queues
PlainIPv4(frames) ==
    {f \in frames : f.direct /\ f.refcnt = 1
                    /\ mpls_deduce_ethertype(f) = RTE_ETHER_TYPE_IPV4}

\* the buffers of a batch marked with the port and queue they were received on
ReceivedOn(batch, port) ==
    [i \in 1 .. Len(batch) |-> [batch[i] EXCEPT !.rxq = <<port.id, port.rx_queue_id>>]]

\* a mutation of LoopCond: the comparison is inverted
LoopCond_Inverted(q) == q # QUIT_FALSE

\* a mutation of LoopCond: the loop body runs whatever the flag says (do-while)
LoopCond_BodyFirst(q) == q = q

\* line 220: while (lets_quit == QUIT_FALSE)
LoopCond(q) == q = QUIT_FALSE

\* a mutation of BreakCond: the check between the phases never breaks
BreakCond_Never(q) == q # q

\* line 233: if (lets_quit == QUIT_TRUE) break;
BreakCond(q) == q = QUIT_TRUE

\* a mutation of MoreToFree: the last unsent buffer is not visited
MoreToFree_OffByOne(ntx, nrx) == ntx + 1 < nrx

\* a mutation of MoreToFree: the comparison is turned round
MoreToFree_Reversed(ntx, nrx) == nrx < ntx

\* lines 228, 243: while (num_tx < num_rx)
MoreToFree(ntx, nrx) == ntx < nrx

\* fwd_engine_stop (lines 30-33)
fwd_engine_stop ==
    /\ lets_quit' = QUIT_TRUE
    /\ hist' = [s \in Streams |->
                  [hist[s] EXCEPT !.stop_at = IF lets_quit = QUIT_FALSE THEN pc[s] ELSE @]]
    /\ UNCHANGED <<strm, pc, pkts, num_rx, num_tx, mpls_hdr, acct, tx_ret, after_stop>>
    /\ UNCHANGED <<pvars, xvars, cvars, svars>>

\* lines 185-190: the header value is built from the stream's label and TTL
WorkerStart(s) ==
    /\ pc[s] = "start"
    /\ mpls_hdr' = [mpls_hdr EXCEPT ![s] =
          mpls_set_ttl(mpls_set_eos(mpls_set_label(U32(0), U32(strm[s].mpls_label)),
                                    U32(1)),
                       U32(strm[s].mpls_ttl))]
    /\ pc' = [pc EXCEPT ![s] = "while"]
    /\ UNCHANGED <<lets_quit, strm, pkts, num_rx, num_tx, acct, tx_ret, after_stop, hist>>
    /\ UNCHANGED <<pvars, xvars, cvars, svars>>

\* line 220: the loop condition
CheckLoop(s) ==
    /\ pc[s] = "while"
    /\ pc' = [pc EXCEPT ![s] = IF LoopCond(lets_quit) THEN "rx1" ELSE "done"]
    /\ hist' = [hist EXCEPT ![s].exit_at = IF LoopCond(lets_quit) THEN @ ELSE "while"]
    /\ UNCHANGED <<lets_quit, strm, pkts, num_rx, num_tx, mpls_hdr, acct, tx_ret, after_stop>>
    /\ UNCHANGED <<pvars, xvars, cvars, svars>>

\* lines 233-234: the stop check between the two phases
CheckBreak(s) ==
    /\ pc[s] = "check"
    /\ pc' = [pc EXCEPT ![s] = IF BreakCond(lets_quit) THEN "done" ELSE "rx2"]
    /\ hist' = [hist EXCEPT ![s].exit_at = IF BreakCond(lets_quit) THEN "check" ELSE @]
    /\ UNCHANGED <<lets_quit, strm, pkts, num_rx, num_tx, mpls_hdr, acct, tx_ret, after_stop>>
    /\ UNCHANGED <<pvars, xvars, cvars, svars>>

\* num_rx = rte_eth_rx_burst(...); if (num_rx != 0) { ... }
Receive(s, at, port, frames, phase, nonempty, empty) ==
    /\ pc[s] = at
    /\ \E batch \in (IF hist[s].tagged
                      THEN {<< >>} \cup {<<f>> : f \in PlainIPv4(frames)}
                      ELSE RxBatches(frames)) :
          /\ hist[s].track => Len(batch) <= MaxFrames - hist[s].rx_cnt[phase]
          /\ LET stamped == IF hist[s].track
                            THEN Numbered(batch, hist[s].rx_cnt[phase])
                            ELSE IF hist[s].tagged THEN ReceivedOn(batch, port)
                            ELSE batch
             IN  /\ hist' = [hist EXCEPT
                                ![s].rx_batch = stamped,
                                ![s].dir = phase,
                                ![s].rx_cnt[phase] = IF hist[s].track THEN @ + Len(batch)
                                                     ELSE @,
                                ![s].last_call =
                                    IF hist[s].tagged
                                    THEN <<"rx", port.id, port.rx_queue_id>>
                                    ELSE @]
                 /\ pkts' = [pkts EXCEPT ![s] = stamped]
          /\ num_rx' = [num_rx EXCEPT ![s] = Len(batch)]
          /\ acct' = [acct EXCEPT ![s] = [i \in 1 .. Len(batch) |-> Fresh]]
          /\ pc' = [pc EXCEPT ![s] = IF Len(batch) # 0 THEN nonempty ELSE empty]
    /\ after_stop' = [after_stop EXCEPT ![s][phase] =
                         IF lets_quit = QUIT_TRUE THEN Min(@ + 1, 2) ELSE @]
    /\ UNCHANGED <<lets_quit, strm, num_tx, mpls_hdr, tx_ret>>
    /\ UNCHANGED <<pvars, xvars, cvars, svars>>

\* lines 222-224: receive on the ingress queue
RxIngress(s) == Receive(s, "rx1", strm[s].input_port, IngressFrames, "encap", "add", "check")

\* lines 237-239: receive on the egress queue
RxEgress(s) == Receive(s, "rx2", strm[s].output_port, EgressFrames, "decap", "rm", "while")

\* line 225: mpls_add_hdr_burst(pkts, num_rx, mpls_hdr); r is what the call
\* yields for each buffer it visited
AddHdr(s) ==
    /\ pc[s] = "add"
    /\ \E r \in {mpls_add_hdr_burst(pkts[s], num_rx[s], mpls_hdr[s])} :
          /\ pkts' = [pkts EXCEPT ![s] =
                        [n \in 1 .. num_rx[s] |-> IF n \in DOMAIN r THEN r[n].m ELSE @[n]]]
          /\ acct' = [acct EXCEPT ![s] =
                        [n \in 1 .. num_rx[s] |->
                            IF n \in DOMAIN r
                            THEN [@[n] EXCEPT !.failed = r[n].failed, !.visited = @ + 1]
                            ELSE @[n]]]
    /\ pc' = [pc EXCEPT ![s] = "tx1"]
    /\ UNCHANGED <<lets_quit, strm, num_rx, num_tx, mpls_hdr, tx_ret, after_stop, hist>>
    /\ UNCHANGED <<pvars, xvars, cvars, svars>>

\* line 240: mpls_remove_hdr_burst(pkts, num_rx)
RemoveHdr(s) ==
    /\ pc[s] = "rm"
    /\ \E r \in {mpls_remove_hdr_burst(pkts[s], num_rx[s])} :
          /\ pkts' = [pkts EXCEPT ![s] =
                        [n \in 1 .. num_rx[s] |-> IF n \in DOMAIN r THEN r[n].m ELSE @[n]]]
          /\ acct' = [acct EXCEPT ![s] =
                        [n \in 1 .. num_rx[s] |->
                            IF n \in DOMAIN r
                            THEN [@[n] EXCEPT !.failed = r[n].failed, !.visited = @ + 1]
                            ELSE @[n]]]
    /\ pc' = [pc EXCEPT ![s] = "tx2"]
    /\ UNCHANGED <<lets_quit, strm, num_rx, num_tx, mpls_hdr, tx_ret, after_stop, hist>>
    /\ UNCHANGED <<pvars, xvars, cvars, svars>>

\* num_tx = rte_eth_tx_burst(port, queue, pkts, num_rx): all num_rx buffers are
\* offered, the NIC takes the first k of them, for any k
Transmit(s, at, port, next) ==
    /\ pc[s] = at
    /\ \E k \in 0 .. num_rx[s] :
          /\ hist' = [hist EXCEPT
                         ![s].tx_log[hist[s].dir] =
                             IF hist[s].track THEN @ \o TxAccepted(pkts[s], k) ELSE @,
                         ![s].last_call =
                             IF hist[s].tagged
                             THEN <<"tx", port.id, port.tx_queue_id>>
                             ELSE @]
          /\ num_tx' = [num_tx EXCEPT ![s] = k]
          /\ tx_ret' = [tx_ret EXCEPT ![s] = k]
          /\ acct' = [acct EXCEPT ![s] =
                        [n \in 1 .. num_rx[s] |->
                            [@[n] EXCEPT !.offered = @ + 1,
                                         !.accepted = IF n <= k THEN @ + 1 ELSE @]]]
    /\ pc' = [pc EXCEPT ![s] = next]
    /\ UNCHANGED <<lets_quit, strm, pkts, num_rx, mpls_hdr, after_stop>>
    /\ UNCHANGED <<pvars, xvars, cvars, svars>>

\* a mutation of TxEgress: the batch goes back out on the port it came in on
TxEgress_InputPort(s) == Transmit(s, "tx1", strm[s].input_port, "free1")

\* lines 226-227: transmit on the egress queue
TxEgress(s) == Transmit(s, "tx1", strm[s].output_port, "free1")

\* lines 241-242: transmit on the ingress queue
TxIngress(s) == Transmit(s, "tx2", strm[s].input_port, "free2")

\* while (num_tx < num_rx) rte_pktmbuf_free(pkts[num_tx++]);  one test of the
\* condition, and one pass through the body if it holds
Release(s, at, next) ==
    /\ pc[s] = at
    /\ IF MoreToFree(num_tx[s], num_rx[s])
       THEN /\ acct' = [acct EXCEPT ![s][num_tx[s] + 1].released = @ + 1]
            /\ num_tx' = [num_tx EXCEPT ![s] = @ + 1]
            /\ UNCHANGED pc
       ELSE /\ pc' = [pc EXCEPT ![s] = next]
            /\ UNCHANGED <<acct, num_tx>>
    /\ UNCHANGED <<lets_quit, strm, pkts, num_rx, mpls_hdr, tx_ret, after_stop, hist>>
    /\ UNCHANGED <<pvars, xvars, cvars, svars>>

\* lines 228-230
FreeUnsentEgress(s) == Release(s, "free1", "check")

\* lines 243-245
FreeUnsentIngress(s) == Release(s, "free2", "while")

\* one step of fwd_worker_loop on the core of stream s
Worker(s) ==
    \/ WorkerStart(s)
    \/ CheckLoop(s)
    \/ RxIngress(s)
    \/ AddHdr(s)
    \/ TxEgress(s)
    \/ FreeUnsentEgress(s)
    \/ CheckBreak(s)
    \/ RxEgress(s)
    \/ RemoveHdr(s)
    \/ TxIngress(s)
    \/ FreeUnsentIngress(s)

\* main (start.c:422-425, 456-547): without a core list there is one stream, on the
\* main core; the streams are configured and a worker is launched on each core;
\* lets_quit starts QUIT_FALSE.  The label and TTL are the defaults or the largest
\* values the options accept.
LoopStart(track) ==
    /\ lets_quit = QUIT_FALSE
    /\ \E cfg \in {<<MPLS_DEFAULT_LABEL, MPLS_DEFAULT_TTL>>, <<1048575, 255>>} :
          strm = fwd_stream_conf(PORT_INGRESS, PORT_EGRESS, 1, cfg[1], cfg[2])
    /\ pc = [s \in Streams |-> "start"]
    /\ pkts = [s \in Streams |-> << >>]
    /\ num_rx = [s \in Streams |-> 0]
    /\ num_tx = [s \in Streams |-> 0]
    /\ mpls_hdr = [s \in Streams |-> U32(0)]
    /\ acct = [s \in Streams |-> << >>]
    /\ tx_ret = [s \in Streams |-> 0]
    /\ after_stop = [s \in Streams |-> [encap |-> 0, decap |-> 0]]
    /\ hist = [s \in Streams |-> NoHist(track)]

LoopInit == LoopStart(FALSE)

\* the same with the buffers of each queue numbered in the order they arrive, for
\* at most MaxFrames buffers per queue
LoopInitNumbered == LoopStart(TRUE)

\* the cores of a core list such as "1,2", as parse_core_list stores them
CoreList == <<1, 2>>

\* main with this core list: one stream per core and a worker launched for each
\* (rte_eal_remote_launch, or run on the main core); the port and queue of the
\* latest receive or transmit call of each stream are recorded, and a receive
\* call delivers at most one buffer
LoopInitStreams ==
    /\ lets_quit = QUIT_FALSE
    /\ strm = fwd_stream_conf(PORT_INGRESS, PORT_EGRESS, Len(CoreList),
                              MPLS_DEFAULT_LABEL, MPLS_DEFAULT_TTL)
    /\ pc = [s \in Streams |-> "start"]
    /\ pkts = [s \in Streams |-> << >>]
    /\ num_rx = [s \in Streams |-> 0]
    /\ num_tx = [s \in Streams |-> 0]
    /\ mpls_hdr = [s \in Streams |-> U32(0)]
    /\ acct = [s \in Streams |-> << >>]
    /\ tx_ret = [s \in Streams |-> 0]
    /\ after_stop = [s \in Streams |-> [encap |-> 0, decap |-> 0]]
    /\ hist = [s \in Streams |-> [NoHist(FALSE) EXCEPT !.tagged = TRUE]]

LoopIdle ==
    /\ lets_quit = QUIT_FALSE /\ strm = << >> /\ pc = << >> /\ pkts = << >>
    /\ num_rx = << >> /\ num_tx = << >> /\ mpls_hdr = << >> /\ acct = << >>
    /\ tx_ret = << >> /\ after_stop = << >> /\ hist = << >>

XformIdle ==
    /\ x_orig = 0 /\ x_pkts = << >> /\ x_hdr = 0
    /\ x_pc = "idle" /\ x_ret = 0 /\ x_failed = FALSE /\ x_etype = 0

ParseIdle ==
    /\ input = << >> /\ list = 1 /\ cores = << >> /\ cores_len = 0
    /\ count = 0 /\ min = 0 /\ max = 0 /\ p_pc = "idle" /\ p_ret = 0

vars == <<pvars, xvars, lvars, cvars, svars>>

InitXform == XformInit /\ ParseIdle /\ LoopIdle /\ CodecIdle /\ ConfIdle

SpecXform == InitXform /\ [][XformNext]_vars

InitDecap == DecapInit /\ ParseIdle /\ LoopIdle /\ CodecIdle /\ ConfIdle

SpecDecap == InitDecap /\ [][DecapNext]_vars

InitCodec == CodecInit /\ ParseIdle /\ XformIdle /\ LoopIdle /\ ConfIdle

SpecCodec == InitCodec /\ [][CodecNext]_vars

InitConf == ConfInit /\ ParseIdle /\ XformIdle /\ CodecIdle /\ LoopIdle

SpecConf == InitConf /\ [][ConfNext]_vars

InitParse == ParseInit /\ XformIdle /\ LoopIdle /\ CodecIdle /\ ConfIdle

SpecParse == InitParse /\ [][ParseNext]_vars

InitInsert == InsertInit /\ XformIdle /\ LoopIdle /\ CodecIdle /\ ConfIdle

SpecInsert == InitInsert /\ [][InsertNext]_vars

Init == LoopInit /\ ParseIdle /\ XformIdle /\ CodecIdle /\ ConfIdle

Next == fwd_engine_stop \/ \E s \in Streams : Worker(s)

Spec == Init /\ [][Next]_vars

InitOrder == LoopInitNumbered /\ ParseIdle /\ XformIdle /\ CodecIdle /\ ConfIdle

SpecOrder == InitOrder /\ [][Next]_vars

InitStreams == LoopInitStreams /\ ParseIdle /\ XformIdle /\ CodecIdle /\ ConfIdle

SpecStreams == InitStreams /\ [][Next]_vars

\* the same with every core executing its worker
FairStreams == SpecStreams /\ \A s \in StreamIds : WF_vars(s \in Streams /\ Worker(s))

\* every core keeps executing its worker, and every receive and transmit call
\* returns: each worker that can take a step eventually takes one
FairSpec == Spec /\ \A s \in StreamIds : WF_vars(s \in Streams /\ Worker(s))


(***************************************************************************)
(* The core-list grammar of the documentation, stated on the text alone    *)
(* (src/cmdlargs.c:112-118 and the usage text): comma-separated tokens,    *)
(* each a non-negative integer or a range low-high, blanks around them.    *)
(***************************************************************************)
IsDigitString(t) == Len(t) > 0 /\ \A i \in 1 .. Len(t) : isdigit(t[i])

RECURSIVE NumberOf(_)
\* the number a string of digits denotes
NumberOf(t) ==
    IF Len(t) = 0 THEN 0
    ELSE 10 * NumberOf(SubSeq(t, 1, Len(t) - 1)) + DigitVal(t[Len(t)])

\* t without its leading and trailing blanks
Trim(t) ==
    LET keep == {i \in 1 .. Len(t) : t[i] # " "}
    IN  IF keep = {} THEN << >>
        ELSE LET a == CHOOSE i \in keep : \A j \in keep : i <= j
                 b == CHOOSE i \in keep : \A j \in keep : j <= i
             IN  SubSeq(t, a, b)

\* the pieces of s between its commas, as pairs <<first, last>> of indices
Pieces(s) ==
    LET cuts == {0, Len(s) + 1} \cup {i \in 1 .. Len(s) : s[i] = ","}
    IN  {<<a + 1, b - 1>> : <<a, b>> \in {w \in cuts \X cuts :
            /\ w[1] < w[2]
            /\ \A k \in cuts : ~(w[1] < k /\ k < w[2])}}

PieceText(s, piece) == SubSeq(s, piece[1], piece[2])

\* the two sides of a piece around its only '-', trimmed
RangeLow(u)  == Trim(SubSeq(u, 1, (CHOOSE i \in 1 .. Len(u) : u[i] = "-") - 1))
RangeHigh(u) == Trim(SubSeq(u, (CHOOSE i \in 1 .. Len(u) : u[i] = "-") + 1, Len(u)))

\* a piece is a range low-high with low <= high
IsRange(u) ==
    /\ Cardinality({i \in 1 .. Len(u) : u[i] = "-"}) = 1
    /\ IsDigitString(RangeLow(u)) /\ IsDigitString(RangeHigh(u))
    /\ NumberOf(RangeLow(u)) <= NumberOf(RangeHigh(u))

\* a piece is a token of the grammar: a number or a range, blanks around it
IsToken(t) == IsDigitString(Trim(t)) \/ IsRange(Trim(t))

\* the values a token lists
TokenValues(t) ==
    LET u == Trim(t)
    IN  IF IsDigitString(u) THEN {NumberOf(u)}
        ELSE NumberOf(RangeLow(u)) .. NumberOf(RangeHigh(u))

WellFormed(s) == \A piece \in Pieces(s) : IsToken(PieceText(s, piece))

ListedValues(s) == UNION {TokenValues(PieceText(s, piece)) : piece \in Pieces(s)}

\* the ascending sequence of the elements of a finite set of numbers
RECURSIVE SortedSeq(_)
SortedSeq(S) ==
    IF S = {} THEN << >>
    ELSE LET m == CHOOSE x \in S : \A y \in S : x <= y
         IN  <<m>> \o SortedSeq(S \ {m})

\* the first n elements of the destination array, as a sequence
Result(n) == [i \in 1 .. n |-> cores[i - 1]]

\* the last non-blank character before position i ("START" if there is none)
PrevNonBlank(s, i) ==
    LET before == {j \in 1 .. i - 1 : s[j] # " "}
    IN  IF before = {} THEN "START"
        ELSE s[CHOOSE j \in before : \A k \in before : k <= j]

\* an empty token between two commas
HasEmptyToken(s) ==
    \E i, j \in 1 .. Len(s) :
        /\ i < j /\ s[i] = "," /\ s[j] = ","
        /\ \A k \in i + 1 .. j - 1 : s[k] = " "

\* a '-' that opens a range: it follows a number
OpensRange(s, i) == s[i] = "-" /\ isdigit(PrevNonBlank(s, i))

\* a negative number: a sign '-' where a token or a range's upper bound starts,
\* followed by digits that are not all zero
HasNegative(s) ==
    \E i \in 1 .. Len(s) :
        /\ s[i] = "-"
        /\ PrevNonBlank(s, i) \in {"START", ",", "-"}
        /\ \E j \in i + 1 .. Len(s) :
              /\ \A k \in i + 1 .. j : isdigit(s[k])
              /\ s[j] # "0"

\* a character that is no part of a number, no separator and no blank
HasUnexpectedChar(s) ==
    \E i \in 1 .. Len(s) : ~(isdigit(s[i]) \/ s[i] \in {",", "-", " ", "+"})

\* a range opened twice before being closed: two range-opening dashes in one piece
HasDoubleRange(s) ==
    \E i, j \in 1 .. Len(s) :
        /\ i < j /\ OpensRange(s, i) /\ OpensRange(s, j)
        /\ \A k \in i .. j : s[k] # ","

Malformed(s) == HasEmptyToken(s) \/ HasNegative(s) \/ HasUnexpectedChar(s) \/ HasDoubleRange(s)

\* a dangling '-' at the end: the last non-blank character opens a range
HasDanglingDash(s) ==
    \E i \in 1 .. Len(s) :
        /\ OpensRange(s, i)
        /\ \A k \in i + 1 .. Len(s) : s[k] = " "
        /\ ~ \E h \in 1 .. i - 1 : OpensRange(s, h) /\ \A k \in h .. i : s[k] # ","

\* the buffers of stream s's current batch, as indices into pkts[s]
Slots(s) == 1 .. Len(acct[s])

\* stream s is between two phases: at one of its stop checks, or out of the loop
BetweenPhases(s) == pc[s] \in {"while", "check", "done"}

\* C1: of the n buffers of every received batch, whatever the transmit call
\* returns (k), the first k are accepted by the transmit call and never released,
\* the other n-k are released exactly once and never accepted; no buffer is
\* offered to transmit twice; and when the phase ends none is left over.  This
\* holds in both phases and in every iteration.
C1_TransmittedOrReleasedOnce ==
    \A s \in Streams : \A i \in Slots(s) :
        /\ acct[s][i].offered <= 1
        /\ acct[s][i].accepted + acct[s][i].released <= 1
        /\ acct[s][i].accepted = 1 => i <= tx_ret[s]
        /\ acct[s][i].released = 1 => acct[s][i].offered = 1 /\ i > tx_ret[s]
        /\ BetweenPhases(s) => acct[s][i].accepted + acct[s][i].released = 1

\* a decapsulating phase has ended in which the transmit call took the first of
\* two buffers and the stream released the second
C1_Witness ==
    \E s \in Streams :
        /\ pc[s] = "while" /\ num_rx[s] = 2 /\ tx_ret[s] = 1
        /\ acct[s][1].accepted = 1 /\ acct[s][1].released = 0
        /\ acct[s][2].accepted = 0 /\ acct[s][2].released = 1

\* since lets_quit was set, stream s has started each phase at most once
C2_PhasesAfterStop ==
    \A s \in Streams : after_stop[s].encap <= 1 /\ after_stop[s].decap <= 1

\* a step that takes stream s out of its loop is taken at one of the two stop
\* checks, with lets_quit set and every buffer of the last batch disposed of
C2_ExitAtStopCheck ==
    \A s \in Streams :
        (pc[s] # "done" /\ pc'[s] = "done")
        => /\ pc[s] \in {"while", "check"}
           /\ lets_quit = QUIT_TRUE
           /\ \A i \in Slots(s) : acct[s][i].accepted + acct[s][i].released = 1

\* C2: once fwd_engine_stop has set lets_quit, a running fwd_worker_loop starts
\* at most one more encapsulating and at most one more decapsulating phase and
\* then leaves the loop; it leaves only at one of its two stop checks, holding
\* no buffer.
C2_BoundedShutdown ==
    /\ []C2_PhasesAfterStop
    /\ [][C2_ExitAtStopCheck]_vars
    /\ (lets_quit = QUIT_TRUE) ~> (\A s \in Streams : pc[s] = "done")

\* the stop arrived right after the check between the phases had passed: the
\* stream still ran a whole decapsulating phase with a full batch, then left
C2_Witness ==
    \E s \in Streams :
        /\ lets_quit = QUIT_TRUE /\ pc[s] = "done"
        /\ after_stop[s].decap = 1 /\ after_stop[s].encap = 0
        /\ num_rx[s] = MaxBatch


\* C3: a buffer whose transform failed is not handed to the transmit call.
C3_FailedNotTransmitted ==
    \A s \in Streams : \A i \in Slots(s) :
        acct[s][i].failed => acct[s][i].offered = 0


\* a buffer is exclusively owned: a direct mbuf with a single reference
Exclusive(m) == m.direct /\ m.refcnt = 1

\* the top nibble of the first payload byte (offset 14) of a frame
PayloadNibble(m) == m.data[RTE_ETHER_HDR_LEN + 1] \div 16

\* the inner payload is recognisable IP and the ethertype says the same
RecognisableIP(m) ==
    \/ PayloadNibble(m) = 4 /\ EtherType(m) = RTE_ETHER_TYPE_IPV4
    \/ PayloadNibble(m) = 6 /\ EtherType(m) = RTE_ETHER_TYPE_IPV6

\* C4: for an exclusively owned buffer with at least RTE_ETHER_MIN_LEN bytes of
\* data, at least 4 bytes of headroom and a recognisable IP payload matching its
\* ethertype, insert_header (any header value) followed by the decapsulating
\* transform gives back the original ethertype, data and packet length,
\* addresses and payload bytes.
C4_InsertThenStripIsIdentity ==
    (/\ x_pc = "insrm"
     /\ Exclusive(x_orig)
     /\ data_len(x_orig) >= RTE_ETHER_MIN_LEN
     /\ x_orig.headroom >= MPLS_HDR_LEN
     /\ RecognisableIP(x_orig))
    => /\ EtherType(x_pkts[1]) = EtherType(x_orig)
       /\ data_len(x_pkts[1]) = data_len(x_orig)
       /\ x_pkts[1].pkt_len = x_orig.pkt_len
       /\ x_pkts[1].data = x_orig.data

\* an IPv6 frame with exactly 4 bytes of headroom and a second segment went
\* through a successful encapsulation and then through the decapsulation
C4_Witness ==
    /\ x_pc = "insrm" /\ x_ret = 0
    /\ Exclusive(x_orig) /\ RecognisableIP(x_orig)
    /\ EtherType(x_orig) = RTE_ETHER_TYPE_IPV6
    /\ x_orig.headroom = MPLS_HDR_LEN
    /\ x_orig.pkt_len > data_len(x_orig)
    /\ x_pkts[1].headroom = x_orig.headroom

\* C5: insert_header on a buffer that is not exclusively owned (reference count
\* above 1, or not a direct buffer) returns -EINVAL and leaves bytes, data length,
\* packet length and headroom as they were, whatever its length and headroom.
C5_SharedBufferRejected ==
    (x_pc = "ins" /\ ~Exclusive(x_orig))
    => /\ x_ret = 0 - EINVAL
       /\ x_pkts[1] = x_orig

\* a shared buffer that is also too short and has no headroom was rejected as shared
C5_Witness ==
    /\ x_pc = "ins" /\ x_orig.refcnt > 1
    /\ data_len(x_orig) < RTE_ETHER_MIN_LEN /\ x_orig.headroom = 0
    /\ x_ret = 0 - EINVAL /\ x_failed

\* C6: the decapsulating transform leaves a buffer whose ethertype is not MPLS
\* exactly as it was, whatever its payload, and logs no failure for it.
C6_NonMplsUntouched ==
    (x_pc = "rm" /\ EtherType(x_orig) # RTE_ETHER_TYPE_MPLS)
    => /\ x_pkts[1] = x_orig
       /\ ~x_failed

\* an IPv4 frame, for which mpls_header_strip is called, came back unchanged
C6_Witness ==
    /\ x_pc = "rm" /\ EtherType(x_orig) = RTE_ETHER_TYPE_IPV4
    /\ PayloadNibble(x_orig) = 4
    /\ x_pkts[1] = x_orig /\ ~x_failed


C8_DanglingDashFails ==
    (p_pc = "ret" /\ HasDanglingDash(input)) => p_ret = 0

\* C9: on a well-formed core list whose distinct values fit the capacity,
\* parse_core_list returns the number of distinct values and leaves exactly the
\* listed values (singles and every integer of each range) in the array,
\* ascending and without duplicates, whatever the order of the tokens.
C9_ParsesToSortedSet ==
    (/\ p_pc = "ret"
     /\ WellFormed(input)
     /\ Cardinality(ListedValues(input)) <= cores_len)
    => /\ p_ret = Cardinality(ListedValues(input))
       /\ Result(p_ret) = SortedSeq(ListedValues(input))

\* a list whose tokens are out of order, or overlap, was parsed into two values
C9_Witness ==
    /\ p_pc = "ret" /\ WellFormed(input) /\ p_ret = 2
    /\ \E i \in 1 .. Len(input) - 2 :
          /\ input[i + 1] = ","
          /\ isdigit(input[i]) /\ isdigit(input[i + 2])
          /\ DigitVal(input[i]) > DigitVal(input[i + 2])

\* C10: on a well-formed core list, parse_core_list returns 0 when the list names
\* more distinct values than the capacity and a non-zero count when it names at
\* most as many; repeated values do not count.
C10_CapacityDecides ==
    (p_pc = "ret" /\ WellFormed(input))
    => (p_ret = 0 <=> Cardinality(ListedValues(input)) > cores_len)

\* a well-formed list naming one value more than the array holds has been
\* rejected after the array was filled
C10_Witness ==
    /\ p_pc = "ret" /\ WellFormed(input) /\ cores_len > 0
    /\ p_ret = 0
    /\ Cardinality(ListedValues(input)) = cores_len + 1

(***************************************************************************)
(* The shim header codec (SpecCodec).                                      *)
(***************************************************************************)
\* the mask and the bit range of each field (mpls.h:36-50)
FieldMask(f) ==
    CASE f = "label" -> MPLS_HDR_LABEL_MASK
      [] f = "tc"    -> MPLS_HDR_TC_MASK
      [] f = "eos"   -> MPLS_HDR_EOS_MASK
      [] f = "ttl"   -> MPLS_HDR_TTL_MASK

FieldBits(f) ==
    CASE f = "label" -> MPLS_HDR_LABEL_BITS
      [] f = "tc"    -> MPLS_HDR_TC_BITS
      [] f = "eos"   -> MPLS_HDR_EOS_BIT
      [] f = "ttl"   -> MPLS_HDR_TTL_BITS

FieldNames == {"label", "tc", "eos", "ttl"}

\* v has no bit outside the width of field f
InRange(v, f) == \A i \in 0 .. 31 : v[i] = 1 => FieldMask(f)[i] = 1

\* C11: a setter followed by the getter of the same field returns the value
\* masked to the field width: a value that fits the field comes back unchanged, a
\* wider one comes back truncated.
C11_SetThenGet ==
    c_pc = "got" =>
        /\ c_got[c_field] = And(c_val, FieldMask(c_field))
        /\ InRange(c_val, c_field) => c_got[c_field] = c_val

\* a value too wide for the field was set and came back truncated
C11_Witness ==
    /\ c_pc = "got"
    /\ ~InRange(c_val, c_field)
    /\ c_got[c_field] # c_val
    /\ c_got[c_field] = And(c_val, FieldMask(c_field))

\* C12: a setter changes only the bits of its own field: the other three getters
\* return what they returned before, no bit outside the field's range changes,
\* and the four ranges (label 31..12, tc 11..9, eos 8, ttl 7..0) are disjoint and
\* cover the 32 bits.
C12_SetTouchesOwnFieldOnly ==
    /\ c_pc = "got" =>
          /\ \A f \in FieldNames \ {c_field} : c_got[f] = Fields(c_old)[f]
          /\ \A i \in 0 .. 31 : FieldBits(c_field)[i] = 0 => c_hdr[i] = c_old[i]
    /\ \A i \in 0 .. 31 :
          /\ MPLS_HDR_LABEL_BITS[i] + MPLS_HDR_TC_BITS[i]
               + MPLS_HDR_EOS_BIT[i] + MPLS_HDR_TTL_BITS[i] = 1
          /\ MPLS_HDR_LABEL_BITS[i] = 1 <=> i \in 12 .. 31
          /\ MPLS_HDR_TC_BITS[i] = 1 <=> i \in 9 .. 11
          /\ MPLS_HDR_EOS_BIT[i] = 1 <=> i = 8
          /\ MPLS_HDR_TTL_BITS[i] = 1 <=> i \in 0 .. 7

\* a value with every bit set was written into the traffic class of a header
\* whose other fields hold alternating bits, and the field changed
C12_Witness ==
    /\ c_pc = "got"
    /\ c_field = "tc"
    /\ c_val = Not(U32(0))
    /\ c_hdr # c_old
    /\ Fields(c_old).label # U32(0)
    /\ Fields(c_old).ttl # U32(0)

(***************************************************************************)
(* insert_header on one buffer (SpecXform).                                *)
(***************************************************************************)
\* C15: insert_header on an exclusively owned buffer returns -ENOSPC when the
\* data length is below RTE_ETHER_MIN_LEN or the headroom is below 4 bytes, and
\* then leaves bytes, lengths and headroom as they were; on every other
\* exclusively owned buffer it succeeds.
C15_InsufficientBuffer ==
    (x_pc = "ins" /\ Exclusive(x_orig))
    => IF data_len(x_orig) < RTE_ETHER_MIN_LEN \/ x_orig.headroom < MPLS_HDR_LEN
       THEN x_ret = 0 - ENOSPC /\ x_pkts[1] = x_orig /\ x_failed
       ELSE x_ret = 0 /\ ~x_failed

\* a frame of exactly the minimum length was refused for lack of one byte of
\* headroom
C15_Witness ==
    /\ x_pc = "ins" /\ Exclusive(x_orig)
    /\ data_len(x_orig) = RTE_ETHER_MIN_LEN
    /\ x_orig.headroom = MPLS_HDR_LEN - 1
    /\ x_ret = 0 - ENOSPC /\ x_pkts[1] = x_orig

\* the number a bit vector below 2^31 stands for
Val(a) ==
    LET RECURSIVE upto(_)
        upto(i) == IF i < 0 THEN 0 ELSE a[i] * Pow2(i) + upto(i - 1)
    IN  upto(30)

\* the four bytes on the wire of a shim header with the given fields (RFC 3032):
\* label(20) tc(3) eos(1) ttl(8), most significant byte first
FieldBytes(f) ==
    LET l == Val(f.label)
        t == Val(f.tc)
        e == Val(f.eos)
        y == Val(f.ttl)
    IN  << l \div 4096, (l \div 16) % 256, (l % 16) * 16 + t * 2 + e, y >>

\* the four bytes of the header value h on the wire
WireBytes(h) == FieldBytes(Fields(h))

\* C20: when insert_header succeeds, data length and packet length grow by 4 and
\* the headroom shrinks by 4, the 12 address bytes are at the new front, the
\* ethertype is MPLS, the next 4 bytes are the header in network byte order, and
\* the original bytes after the original link-layer header follow unchanged.
C20_EncapsulationEffect ==
    (x_pc = "ins" /\ x_ret = 0)
    => LET new == x_pkts[1]
       IN  /\ data_len(new) = data_len(x_orig) + 4
           /\ new.pkt_len = x_orig.pkt_len + 4
           /\ new.headroom = x_orig.headroom - 4
           /\ \A i \in 1 .. 12 : new.data[i] = x_orig.data[i]
           /\ EtherType(new) = RTE_ETHER_TYPE_MPLS
           /\ \A k \in 1 .. 4 : new.data[RTE_ETHER_HDR_LEN + k] = WireBytes(x_hdr)[k]
           /\ \A i \in RTE_ETHER_HDR_LEN + 1 .. data_len(x_orig) :
                 new.data[i + 4] = x_orig.data[i]
           /\ new.refcnt = x_orig.refcnt /\ new.direct = x_orig.direct

\* the header with label 16, End-of-Stack and TTL 64 was inserted into a
\* two-segment IPv4 frame that had exactly 4 bytes of headroom
C20_Witness ==
    /\ x_pc = "ins" /\ x_ret = 0
    /\ x_hdr = U32(65856)
    /\ EtherType(x_orig) = RTE_ETHER_TYPE_IPV4
    /\ x_orig.headroom = MPLS_HDR_LEN /\ x_pkts[1].headroom = 0
    /\ x_orig.pkt_len > data_len(x_orig)
    /\ SubSeq(x_pkts[1].data, 15, 18) = <<0, 1, 1, 64>>

(***************************************************************************)
(* The configured streams (SpecConf).                                      *)
(***************************************************************************)
\* the queues stream i uses: (port, direction, queue index)
StreamQueues(i) ==
    { <<strm[i].input_port.id,  "rx", strm[i].input_port.rx_queue_id>>,
      <<strm[i].input_port.id,  "tx", strm[i].input_port.tx_queue_id>>,
      <<strm[i].output_port.id, "rx", strm[i].output_port.rx_queue_id>>,
      <<strm[i].output_port.id, "tx", strm[i].output_port.tx_queue_id>> }

\* C16: for N cores fwd_stream_conf leaves exactly N streams; stream i uses
\* queue index i for receive and transmit on the ingress and on the egress port
\* and carries the configured label and TTL; two different streams share no
\* queue of any port.
C16_StreamAssignment ==
    s_pc = "conf" =>
        /\ DOMAIN strm = 0 .. g_app_config.num_cores - 1
        /\ \A i \in DOMAIN strm :
              /\ strm[i].input_port  = [id |-> g_ports.in, rx_queue_id |-> i,
                                        tx_queue_id |-> i]
              /\ strm[i].output_port = [id |-> g_ports.out, rx_queue_id |-> i,
                                        tx_queue_id |-> i]
              /\ strm[i].mpls_label = g_app_config.mpls_label
              /\ strm[i].mpls_ttl = g_app_config.mpls_ttl
        /\ \A i, j \in DOMAIN strm :
              i # j => StreamQueues(i) \cap StreamQueues(j) = {}
        /\ g_ports.in # g_ports.out

\* several streams were configured with the second port as ingress and the
\* largest label
C16_Witness ==
    /\ s_pc = "conf"
    /\ g_app_config.num_cores = MaxStreams
    /\ g_app_config.mpls_in_port = 1
    /\ strm[MaxStreams - 1].input_port.id = 1
    /\ strm[MaxStreams - 1].output_port.rx_queue_id = MaxStreams - 1
    /\ strm[0].mpls_label = 1048575

(***************************************************************************)
(* Order of forwarding (SpecOrder).                                        *)
(***************************************************************************)
Directions == {"encap", "decap"}

\* C13: in each direction of a stream, the buffers the transmit calls accepted
\* were handed over in the order in which they had been received from the
\* corresponding receive queue, across batches and iterations: the receive
\* numbers in the transmit log are strictly increasing, and each is the number of
\* a buffer that was received.
C13_ForwardedInReceiveOrder ==
    \A s \in Streams : \A d \in Directions :
        LET log == hist[s].tx_log[d]
        IN  /\ \A i, j \in 1 .. Len(log) : i < j => log[i] < log[j]
            /\ \A i \in 1 .. Len(log) : log[i] \in 1 .. hist[s].rx_cnt[d]

\* two ingress batches of one buffer each were both transmitted, an egress batch
\* of two was transmitted whole in between or after, and the second ingress
\* batch is the one in hand
C13_Witness ==
    \E s \in Streams :
        /\ hist[s].tx_log["encap"] = <<1, 2>>
        /\ hist[s].tx_log["decap"] = <<1, 2>>
        /\ hist[s].dir = "encap" /\ num_rx[s] = 1

(***************************************************************************)
(* The forwarding loop (Spec): batches, the header, the stop flag.         *)
(***************************************************************************)
\* the transform of the phase has run over the batch stream s holds
Transformed(s, phase, at) == hist[s].dir = phase /\ pc[s] \in at

\* C14: the encapsulating and the decapsulating transform visit every buffer of
\* a batch, whether or not earlier ones failed or were skipped; what happens to a
\* buffer is what happens when the transform is run on that buffer alone; and a
\* buffer whose transform failed is left as it was received.
C14_BatchElementsIndependent ==
    \A s \in Streams : \A n \in Slots(s) :
        /\ Transformed(s, "encap", {"tx1", "free1"})
           => LET alone == mpls_add_hdr_burst(<<hist[s].rx_batch[n]>>, 1, mpls_hdr[s])[1]
              IN  /\ acct[s][n].visited = 1
                  /\ pkts[s][n] = alone.m
                  /\ acct[s][n].failed = alone.failed
                  /\ acct[s][n].failed => pkts[s][n] = hist[s].rx_batch[n]
        /\ Transformed(s, "decap", {"tx2", "free2"})
           => LET alone == mpls_remove_hdr_burst(<<hist[s].rx_batch[n]>>, 1)[1]
              IN  /\ acct[s][n].visited = 1
                  /\ pkts[s][n] = alone.m
                  /\ acct[s][n].failed = alone.failed
                  /\ acct[s][n].failed => pkts[s][n] = hist[s].rx_batch[n]

\* in a batch of two the first buffer failed and was left alone, and the second
\* was encapsulated all the same
C14_Witness ==
    \E s \in Streams :
        /\ pc[s] = "tx1" /\ num_rx[s] = 2
        /\ acct[s][1].failed /\ pkts[s][1] = hist[s].rx_batch[1]
        /\ ~acct[s][2].failed /\ acct[s][2].visited = 1
        /\ EtherType(pkts[s][2]) = RTE_ETHER_TYPE_MPLS
        /\ EtherType(hist[s].rx_batch[2]) = RTE_ETHER_TYPE_IPV4

\* the shim header of stream s: the configured label in 20 bits, traffic class
\* 0, End-of-Stack 1, the configured TTL in 8 bits
StreamHeader(s) ==
    [label |-> U32(strm[s].mpls_label % 1048576), tc |-> U32(0),
     eos   |-> U32(1), ttl |-> U32(strm[s].mpls_ttl % 256)]

\* C17: from the moment the loop is entered the header value of a stream is the
\* one built from its configured label and TTL with traffic class 0 and
\* End-of-Stack 1, in every iteration, and every buffer the stream has
\* encapsulated carries exactly this header after the link-layer header.
C17_OneHeaderPerStream ==
    \A s \in Streams :
        /\ pc[s] # "start" => Fields(mpls_hdr[s]) = StreamHeader(s)
        /\ Transformed(s, "encap", {"tx1", "free1", "check", "rx2", "done"})
           => \A n \in Slots(s) :
                 ~acct[s][n].failed
                 => /\ EtherType(pkts[s][n]) = RTE_ETHER_TYPE_MPLS
                    /\ SubSeq(pkts[s][n].data, RTE_ETHER_HDR_LEN + 1,
                              RTE_ETHER_HDR_LEN + MPLS_HDR_LEN)
                         = FieldBytes(StreamHeader(s))

\* a buffer encapsulated with the largest label and TTL was accepted by the
\* transmit call, in an iteration that followed a decapsulating phase
C17_Witness ==
    \E s \in Streams :
        /\ pc[s] = "check" /\ hist[s].dir = "encap" /\ num_rx[s] > 0
        /\ hist[s].rx_cnt["decap"] > 0
        /\ strm[s].mpls_label = 1048575 /\ strm[s].mpls_ttl = 255
        /\ ~acct[s][1].failed /\ acct[s][1].accepted = 1
        /\ SubSeq(pkts[s][1].data, 15, 18) = <<255, 255, 241, 255>>

\* a step of stream s at the check between the phases with lets_quit set leaves
\* the loop, and a stream that has left the loop makes no further call
C18_Step ==
    \A s \in Streams :
        /\ (pc[s] = "check" /\ lets_quit = QUIT_TRUE /\ pc'[s] # pc[s])
           => pc'[s] = "done" /\ pkts'[s] = pkts[s] /\ num_rx'[s] = num_rx[s]
        /\ pc[s] = "done"
           => /\ pc'[s] = "done"
              /\ pkts'[s] = pkts[s] /\ num_rx'[s] = num_rx[s] /\ acct'[s] = acct[s]
              /\ hist'[s].rx_batch = hist[s].rx_batch /\ hist'[s].dir = hist[s].dir

\* C18: when the stop flag is found set at the check after the encapsulating
\* phase, the loop is left without the receive call on the egress queue, and no
\* receive call on either queue follows.
C18_StopBetweenPhasesSkipsDecap == [][C18_Step]_vars

\* the stream left at the check between the phases, the batch of the
\* encapsulating phase being the last it received
C18_Witness ==
    \E s \in Streams :
        /\ pc[s] = "done" /\ hist[s].exit_at = "check"
        /\ hist[s].dir = "encap" /\ num_rx[s] = MaxBatch
        /\ after_stop[s].decap = 0

\* the positions of a worker at which it holds a received batch
InFlight == {"add", "tx1", "free1", "rm", "tx2", "free2"}

\* C19: a batch that was in flight when the stop flag was set is still
\* transformed and handed to the transmit call, and what the call did not take is
\* released, before the loop is left; a worker that has returned holds no buffer
\* that it neither transmitted nor released.
C19_InFlightBatchCompletes ==
    \A s \in Streams :
        pc[s] = "done"
        => /\ \A n \in Slots(s) : acct[s][n].accepted + acct[s][n].released = 1
           /\ hist[s].stop_at \in InFlight
              => /\ num_rx[s] > 0
                 /\ \A n \in Slots(s) :
                       /\ acct[s][n].visited = 1
                       /\ acct[s][n].offered = 1

\* the flag was set while a full batch waited for its transform; the worker has
\* left after transmitting the first buffer and releasing the rest
C19_Witness ==
    \E s \in Streams :
        /\ pc[s] = "done" /\ hist[s].stop_at = "rm" /\ num_rx[s] = MaxBatch
        /\ acct[s][1].accepted = 1 /\ acct[s][MaxBatch].released = 1
        /\ acct[s][MaxBatch].visited = 1

(***************************************************************************)
(* The decapsulating transform on one buffer (SpecXform).                  *)
(***************************************************************************)
\* the top nibble of the byte that follows the 4-byte shim (offset 18)
InnerNibble(m) == m.data[RTE_ETHER_HDR_LEN + MPLS_HDR_LEN + 1] \div 16

\* C21: for a buffer whose ethertype is MPLS and whose byte after the shim has
\* top nibble 4 or 6, the decapsulating transform reduces data length and packet
\* length by exactly 4, keeps the 12 address bytes, sets the ethertype to IPv4
\* (nibble 4) or IPv6 (nibble 6), removes exactly the 4 shim bytes and leaves
\* every byte after the shim unchanged.
C21_DecapsulationEffect ==
    (/\ x_pc = "rm"
     /\ EtherType(x_orig) = RTE_ETHER_TYPE_MPLS
     /\ InnerNibble(x_orig) \in {4, 6})
    => LET new == x_pkts[1]
       IN  /\ ~x_failed
           /\ data_len(new) = data_len(x_orig) - 4
           /\ new.pkt_len = x_orig.pkt_len - 4
           /\ new.headroom = x_orig.headroom + 4
           /\ \A i \in 1 .. 12 : new.data[i] = x_orig.data[i]
           /\ EtherType(new) = IF InnerNibble(x_orig) = 4 THEN RTE_ETHER_TYPE_IPV4
                                                          ELSE RTE_ETHER_TYPE_IPV6
           /\ \A i \in RTE_ETHER_HDR_LEN + 1 .. data_len(new) :
                 new.data[i] = x_orig.data[i + 4]
           /\ new.refcnt = x_orig.refcnt /\ new.direct = x_orig.direct

\* a shared, two-segment MPLS frame of 60 bytes without headroom, whose inner
\* payload starts with 0x60, came out of the decapsulation as an IPv6 frame
C21_Witness ==
    /\ x_pc = "rm"
    /\ EtherType(x_orig) = RTE_ETHER_TYPE_MPLS
    /\ InnerNibble(x_orig) = 6
    /\ x_orig.refcnt > 1 /\ x_orig.headroom = 0
    /\ data_len(x_orig) = 60 /\ x_orig.pkt_len > data_len(x_orig)
    /\ EtherType(x_pkts[1]) = RTE_ETHER_TYPE_IPV6
    /\ data_len(x_pkts[1]) = 56

(***************************************************************************)
(* Deduction and decapsulation for every top nibble (SpecDecap).           *)
(***************************************************************************)
\* C22: for a buffer whose ethertype is MPLS and whose byte after the shim has a
\* top nibble other than 4 and 6, the decapsulating transform leaves bytes and
\* lengths unchanged: the shim stays in place and the ethertype stays MPLS.
C22_UnknownPayloadUntouched ==
    (/\ x_pc = "rm"
     /\ EtherType(x_orig) = RTE_ETHER_TYPE_MPLS
     /\ InnerNibble(x_orig) \notin {4, 6})
    => /\ x_pkts[1] = x_orig
       /\ EtherType(x_pkts[1]) = RTE_ETHER_TYPE_MPLS
       /\ ~x_failed

\* an MPLS frame whose byte after the shim is 0x5f, while the shim itself starts
\* with an IPv4-looking 0x45, came out of the decapsulation as it went in
C22_Witness ==
    /\ x_pc = "rm"
    /\ EtherType(x_orig) = RTE_ETHER_TYPE_MPLS
    /\ x_orig.data[RTE_ETHER_HDR_LEN + MPLS_HDR_LEN + 1] = 5 * 16 + 15
    /\ x_orig.data[RTE_ETHER_HDR_LEN + 1] = 4 * 16 + 5
    /\ data_len(x_pkts[1]) = data_len(x_orig)
    /\ x_pkts[1].data = x_orig.data

\* the offset (0-based) of the byte mpls_deduce_ethertype has to look at: 18 when
\* bytes 12 and 13 are 0x88 0x47, else 14
InspectedOffset(m) ==
    IF m.data[13] = 8 * 16 + 8 /\ m.data[14] = 4 * 16 + 7 THEN 18 ELSE 14

\* C23: mpls_deduce_ethertype looks at the byte at offset 14 when the ethertype
\* is not MPLS and at offset 18 when it is, and returns the IPv4 ethertype for a
\* top nibble of 4, the IPv6 ethertype for 6 and 0 for each of the other 14
\* nibbles; the low nibble and the other bytes do not matter, and the buffer is
\* not modified.
C23_EthertypeDeduction ==
    x_pc = "ded"
    => LET nibble == x_orig.data[InspectedOffset(x_orig) + 1] \div 16
       IN  /\ nibble = 4 => x_etype = RTE_ETHER_TYPE_IPV4
           /\ nibble = 6 => x_etype = RTE_ETHER_TYPE_IPV6
           /\ nibble \notin {4, 6} => x_etype = 0
           /\ x_pkts[1] = x_orig

\* for an MPLS frame with 0x45 at offset 14 and 0x6f at offset 18 the deduction
\* gave IPv6
C23_Witness ==
    /\ x_pc = "ded"
    /\ EtherType(x_orig) = RTE_ETHER_TYPE_MPLS
    /\ x_orig.data[15] = 4 * 16 + 5
    /\ x_orig.data[19] = 6 * 16 + 15
    /\ x_etype = RTE_ETHER_TYPE_IPV6

(***************************************************************************)
(* The sorted insert (SpecInsert).                                         *)
(***************************************************************************)
\* the first n elements of the array are strictly ascending
Ascending(array, n) == \A i, j \in 0 .. n - 1 : i < j => array[i] < array[j]

\* the indices a call put_in_order(val, n, array, ..) reads or writes: the first
\* loop reads up to the first element that is not below val; an insertion then
\* touches every index from there up to n
Accessed(val, n, array) ==
    LET below   == {i \in 0 .. n - 1 : array[i] < val}
        present == \E i \in 0 .. n - 1 : array[i] = val
        slot    == Cardinality(below)
    IN  IF present THEN 0 .. slot ELSE 0 .. n

\* one call put_in_order(val, count, cores, cores_len) of a sorted array and what
\* it leaves behind
PutStepEffect ==
    LET val     == min'
        n       == count
        present == \E i \in 0 .. n - 1 : cores[i] = val
        slot    == Cardinality({i \in 0 .. n - 1 : cores[i] < val})
    IN  /\ present => cores' = cores /\ count' = count
        /\ (~present /\ n < cores_len)
              => /\ count' = n + 1
                 /\ cores'[slot] = val
                 /\ \A i \in 0 .. slot - 1 : cores'[i] = cores[i]
                 /\ \A i \in slot .. n - 1 : cores'[i + 1] = cores[i]
                 /\ \A i \in n + 1 .. cores_len - 1 : cores'[i] = cores[i]
                 /\ Accessed(val, n, cores) \subseteq DOMAIN cores
        /\ count' = -1 <=> (~present /\ n = cores_len)
        /\ count' = -1 => cores' = cores

\* C25: starting from an empty array, after any sequence of put_in_order calls
\* that did not return -1 the first count elements are strictly ascending and
\* count <= capacity; a value already present leaves array and count unchanged, a
\* new value lands at its sorted position with the later elements shifted up by
\* one and count one larger, all inside the array; -1 is returned only for a new
\* value when count equals the capacity.
C25_SortedInsert ==
    /\ [](p_pc = "put" => count \in 0 .. cores_len /\ Ascending(cores, count))
    /\ [][p_pc = "put" => PutStepEffect]_vars

\* an array of capacity 3 is full and ascending, and the value of the last call
\* is its first element: the two larger values were there before it
C25_Witness ==
    /\ p_pc = "put" /\ cores_len = 3 /\ count = 3
    /\ min = 0 /\ cores[0] = 0 /\ cores[1] = 2 /\ cores[2] = 4

(***************************************************************************)
(* Core lists with a trailing comma or a reversed range (SpecParse).       *)
(***************************************************************************)
\* an empty token at the end: the last non-blank character is a comma
HasTrailingComma(s) == PrevNonBlank(s, Len(s) + 1) = ","

\* C26: an empty token at the end of the core list (a trailing comma) makes
\* parse_core_list return 0, however many valid tokens came before it, like an
\* empty token between two commas.
C26_TrailingCommaFails ==
    (p_pc = "ret" /\ HasTrailingComma(input)) => p_ret = 0

\* a piece is a reversed range low-high, low > high
IsReversedRange(u) ==
    /\ Cardinality({i \in 1 .. Len(u) : u[i] = "-"}) = 1
    /\ IsDigitString(RangeLow(u)) /\ IsDigitString(RangeHigh(u))
    /\ NumberOf(RangeLow(u)) > NumberOf(RangeHigh(u))

ReversedPieces(s) == {piece \in Pieces(s) : IsReversedRange(Trim(PieceText(s, piece)))}

\* the values of the pieces that are not reversed ranges
ValuesBesideReversed(s) ==
    UNION {TokenValues(PieceText(s, piece)) : piece \in Pieces(s) \ ReversedPieces(s)}

\* C27: a reversed range low-high with low > high is an empty range: it inserts
\* no value and does not fail the parse, so the values of the valid tokens
\* before and after it are returned, and a list of reversed ranges alone
\* returns 0.
C27_ReversedRangeIsEmpty ==
    (/\ p_pc = "ret"
     /\ ReversedPieces(input) # {}
     /\ \A piece \in Pieces(input) \ ReversedPieces(input) : IsToken(PieceText(input, piece))
     /\ Cardinality(ValuesBesideReversed(input)) <= cores_len)
    => /\ p_ret = Cardinality(ValuesBesideReversed(input))
       /\ Result(p_ret) = SortedSeq(ValuesBesideReversed(input))

\* "2,2-1,0": the tokens before and after the reversed range were stored, in order
C27_Witness ==
    /\ p_pc = "ret"
    /\ input = <<"2", ",", "2", "-", "1", ",", "0">>
    /\ p_ret = 2 /\ cores[0] = 0 /\ cores[1] = 2

(***************************************************************************)
(* Several streams side by side (SpecStreams).                             *)
(***************************************************************************)
\* the queue index of stream s on both ports
OwnQueue(s) == QUEUE_INITIAL_IDX + s

\* the locals of the fwd_worker_loop of stream s
Locals(s) == <<pc[s], pkts[s], num_rx[s], num_tx[s], mpls_hdr[s], acct[s], tx_ret[s]>>

\* stream s holds a batch of the given phase that it has offered for transmit
Offered(s, phase) ==
    /\ hist[s].dir = phase /\ num_rx[s] > 0
    /\ pc[s] \in (IF phase = "encap" THEN {"free1", "check", "rx2", "done"}
                                     ELSE {"free2", "while", "rx1", "done"})

\* every call of a stream is on its own queue index, on one of the two ports;
\* the buffers it holds came from its own queue of the port of the phase; a
\* batch from the ingress queue was offered to the egress port and a batch from
\* the egress queue to the ingress port; no two streams hold a buffer of the same
\* queue
StreamsApart ==
    /\ \A s \in Streams :
          /\ hist[s].last_call # <<"none">>
             => /\ hist[s].last_call[2] \in {PORT_INGRESS, PORT_EGRESS}
                /\ hist[s].last_call[3] = OwnQueue(s)
          /\ \A n \in 1 .. Len(pkts[s]) :
                pkts[s][n].rxq = <<IF hist[s].dir = "encap" THEN PORT_INGRESS
                                                            ELSE PORT_EGRESS,
                                   OwnQueue(s)>>
          /\ Offered(s, "encap") => hist[s].last_call = <<"tx", PORT_EGRESS, OwnQueue(s)>>
          /\ Offered(s, "decap") => hist[s].last_call = <<"tx", PORT_INGRESS, OwnQueue(s)>>
    /\ \A s, t \in Streams :
          s # t => \A n \in 1 .. Len(pkts[s]) : \A m \in 1 .. Len(pkts[t]) :
                      pkts[s][n].rxq # pkts[t][m].rxq

\* a step that changes the locals of one stream changes neither the locals of
\* another stream nor lets_quit, and no step changes the stream table
StreamStepIsLocal ==
    /\ strm' = strm
    /\ \A s \in Streams :
          Locals(s)' # Locals(s)
          => /\ lets_quit' = lets_quit
             /\ \A t \in Streams \ {s} : Locals(t)' = Locals(t) /\ hist'[t] = hist[t]

\* C24: with several streams running concurrently, stream i receives and
\* transmits only on queue index i of the ingress and egress ports; buffers from
\* the ingress queue go only to the egress queue and buffers from the egress
\* queue only to the ingress queue; no buffer received by one stream is
\* transformed, transmitted or released by another; and lets_quit is the only
\* state one context writes and the streams read.
C24_StreamsIsolated ==
    /\ []StreamsApart
    /\ [][StreamStepIsLocal]_vars

\* stream 0 has offered an ingress buffer to queue 0 of the egress port while
\* stream 1 has offered an egress buffer to queue 1 of the ingress port
C24_Witness ==
    /\ Cardinality(Streams) = 2
    /\ pc[0] = "free1" /\ num_rx[0] = 1
    /\ hist[0].last_call = <<"tx", PORT_EGRESS, 0>>
    /\ pkts[0][1].rxq = <<PORT_INGRESS, 0>>
    /\ pc[1] = "free2" /\ num_rx[1] = 1
    /\ hist[1].last_call = <<"tx", PORT_INGRESS, 1>>
    /\ pkts[1][1].rxq = <<PORT_EGRESS, 1>>

\* a worker that found lets_quit set when it was entered has made no receive or
\* transmit call and holds no buffer
LateStartIdle ==
    \A s \in Streams :
        hist[s].stop_at = "start"
        => /\ pc[s] \in {"start", "while", "done"}
           /\ hist[s].last_call = <<"none">>
           /\ pkts[s] = << >> /\ num_rx[s] = 0

\* C28: once fwd_engine_stop has set lets_quit no operation clears it; every
\* running stream eventually leaves its loop; and a fwd_worker_loop entered after
\* the flag was set returns without a receive or transmit call.
C28_StopIsTerminal ==
    /\ [][lets_quit = QUIT_TRUE => lets_quit' = QUIT_TRUE]_vars
    /\ \A s \in StreamIds :
          (lets_quit = QUIT_TRUE /\ s \in Streams) ~> (s \in Streams /\ pc[s] = "done")
    /\ []LateStartIdle

\* both workers have returned: one was entered after the flag was set and made
\* no call, the other was stopped while it held a buffer
C28_Witness ==
    /\ lets_quit = QUIT_TRUE
    /\ \A s \in Streams : pc[s] = "done"
    /\ hist[0].stop_at = "start" /\ hist[0].last_call = <<"none">>
    /\ hist[1].stop_at = "tx1" /\ hist[1].last_call[1] = "tx"

====
